---- MODULE Spec2Model ----
(***************************************************************************)
(* Model of the back-test engine of StockLab (src/src/App.tsx):            *)
(* backtestFromSignal walks the price series once and keeps the trade      *)
(* state (equity, pos, entryPrice, stopLevel) and the trade ledger.        *)
(*                                                                         *)
(* Numbers.  A JavaScript number is modelled as an exact extended          *)
(* rational <<num, den>>: den > 0 is a finite value in lowest terms,       *)
(* <<0,0>> is NaN, <<1,0>> / <<-1,0>> are +/-Infinity, and <<0,-1>> is     *)
(* the `null` of the indicator arrays.  Rounding of IEEE doubles is not    *)
(* modelled.                                                               *)
(*                                                                         *)
(* Equity.  `cost` is fixed for a run and equity only ever changes by      *)
(* `equity *= 1 - cost` and `equity *= 1 + r`, so the value of equity is   *)
(* kept exactly as the pair [k, m] meaning (1 - cost)^k * m: the first     *)
(* assignment adds one to k, the second multiplies m.  EquityValue turns   *)
(* the pair into one rational.                                             *)
(*                                                                         *)
(* Inputs.  The arrays of args (rows, signal, atr, volumeRatio,            *)
(* eventCountByDate) are drawn element by element at the statement that    *)
(* reads them.  An element the run never reads is recorded with its        *)
(* default (null, low = close, no event), which no statement can observe.  *)
(***************************************************************************)
EXTENDS Integers, Sequences, FiniteSets, TLC

\* ------------------------------------------------------------------------
\* Bounds of the model
\* ------------------------------------------------------------------------
MaxBars == 3

\* longest series given to an indicator or a signal generator
MaxLen == 5

\* ------------------------------------------------------------------------
\* Extended rationals
\* ------------------------------------------------------------------------
NaN == <<0, 0>>

null == <<0, -1>>

Infinity == <<1, 0>>

NegInfinity == <<-1, 0>>

Abs(x) == IF x < 0 THEN -x ELSE x

RECURSIVE GCD(_, _)
GCD(a, b) == IF b = 0 THEN a ELSE GCD(b, a % b)

Norm(p, q) ==
  IF q = 0 THEN (IF p > 0 THEN Infinity ELSE IF p < 0 THEN NegInfinity ELSE NaN)
  ELSE LET g == GCD(Abs(p), Abs(q))
           s == IF q < 0 THEN -1 ELSE 1
       IN  <<s * (p \div g), s * (q \div g)>>

Num(z) == <<z, 1>>

Zero == Num(0)

One == Num(1)

isFinite(x) == x[2] > 0

RNeg(x) == <<-x[1], x[2]>>

RAdd(x, y) == Norm(x[1] * y[2] + y[1] * x[2], x[2] * y[2])

RSub(x, y) == RAdd(x, RNeg(y))

\* product of two finite values, reduced crosswise before multiplying
RMul(x, y) ==
  LET g1 == GCD(Abs(x[1]), y[2])
      g2 == GCD(Abs(y[1]), x[2])
  IN  Norm((x[1] \div g1) * (y[1] \div g2), (x[2] \div g2) * (y[2] \div g1))

\* quotient of two finite values; x / 0 is +/-Infinity or NaN as in IEEE 754
RDiv(x, y) ==
  IF y[1] = 0 THEN Norm(x[1], 0)
  ELSE IF y[1] > 0 THEN RMul(x, <<y[2], y[1]>>)
  ELSE RMul(x, <<-y[2], -y[1]>>)

\* comparisons; every comparison with NaN or null is false, as in JavaScript
\* for NaN (null is never compared: the code tests `== null` first)
RLt(x, y) ==
  /\ x # NaN /\ y # NaN /\ x # null /\ y # null
  /\ IF isFinite(x) /\ isFinite(y) THEN x[1] * y[2] < y[1] * x[2]
     ELSE IF isFinite(x) THEN y = Infinity
     ELSE IF isFinite(y) THEN x = NegInfinity
     ELSE x = NegInfinity /\ y = Infinity

RLe(x, y) ==
  /\ x # NaN /\ y # NaN /\ x # null /\ y # null
  /\ (x = y \/ RLt(x, y))

RGt(x, y) == RLt(y, x)

RGe(x, y) == RLe(y, x)

RMax(x, y) == IF RGe(x, y) THEN x ELSE y

RMin(x, y) == IF RLe(x, y) THEN x ELSE y

RECURSIVE RPow(_, _)
RPow(x, e) == IF e = 0 THEN One ELSE RMul(x, RPow(x, e - 1))

\* function clamp(x, a, b) { return Math.max(a, Math.min(b, x)); }
clamp(x, a, b) == RMax(a, RMin(b, x))

\* ------------------------------------------------------------------------
\* Input domains
\* ------------------------------------------------------------------------
\* <<feeBps, slipBps>>: no cost, 50 + 50 bps, and a sum above the 0.1 cap
FeeSlip == {<<0, 0>>, <<50, 50>>, <<2000, 50>>}

StopKs == {Num(0), Num(2)}

GateThrs == {Num(1), Num(5)}

EventScales == {Zero, <<1, 2>>, <<3, 2>>}

EventThrs == {2}

\* closes of the bar of date t: unchanged from the base price, or moved
ClosesOn(t) == {Num(100), Num(100 + 5 * t)}

\* low = close - offset
LowOffsets == {Num(0), Num(10)}

Signals == {0, 1}

ATRs == {null, Zero, Num(5)}

VRs == {null, Num(2)}

\* count of the date in eventCountByDate; -1 stands for "date not a key"
EventCounts == {-1, 2}

\* the configurations of a run: a threshold or factor of a switched-off
\* feature is never read and takes one value only
Configs ==
  { [feeBps |-> fs[1], slipBps |-> fs[2], atrStopK |-> k,
     volumeGateOn |-> g, volumeGateThr |-> gt,
     eventScaleOn |-> e, eventCountThr |-> et, eventScale |-> es] :
      fs \in FeeSlip, k \in StopKs,
      g \in BOOLEAN, gt \in GateThrs,
      e \in BOOLEAN, et \in EventThrs, es \in EventScales }

LiveConfigs ==
  { c \in Configs :
      /\ (~c.volumeGateOn => c.volumeGateThr = Num(1))
      /\ (~c.eventScaleOn => c.eventScale = <<1, 2>>) }

\* ------------------------------------------------------------------------
\* State
\* ------------------------------------------------------------------------
VARIABLES
  args,              \* the scalar fields of args
  n,                 \* rows.length
  rows,              \* rows[0..], as far as they were read: [t, low, close]
  signal,            \* signal[0..], as far as it was read
  atr,               \* atr[0..], as far as it was read
  volumeRatio,       \* volumeRatio[0..], as far as it was read
  eventCountByDate,  \* the map, on the dates looked at
  pc,                \* "call", "transition", "realize", "finalize", "done"
  i,                 \* loop index
  equity, pos, entryPrice, stopLevel,
  trades, wins, losses,
  curve, daily,
  result,            \* "pending", "null" or the result record
  atBarStart,        \* the trade state at the head of the current iteration
  alt,               \* a second, independent run on the same rows (SpecPair)
  ind,               \* the last indicator or signal series computed
  load               \* the price loader of the page (SpecLoad)

runVars == <<equity, pos, entryPrice, stopLevel, trades, wins, losses>>

inputVars == <<args, n, rows, signal, atr, volumeRatio, eventCountByDate>>

vars == <<args, n, rows, signal, atr, volumeRatio, eventCountByDate, pc, i,
          equity, pos, entryPrice, stopLevel, trades, wins, losses,
          curve, daily, result, atBarStart, alt, ind, load>>

\* the locals of one run as a record
State ==
  [equity |-> equity, pos |-> pos, entryPrice |-> entryPrice,
   stopLevel |-> stopLevel, trades |-> trades, wins |-> wins,
   losses |-> losses]

\* let equity = 1; let pos = 0; let entryPrice = NaN; let stopLevel = NaN;
\* let trades = 0; let wins = 0; let losses = 0;
InitialState ==
  [equity |-> [k |-> 0, m |-> One], pos |-> 0, entryPrice |-> NaN,
   stopLevel |-> NaN, trades |-> 0, wins |-> 0, losses |-> 0]

\* rows[j], signal[j], ... with the source's 0-based index
Row(j) == rows[j + 1]

\* ------------------------------------------------------------------------
\* backtestFromSignal
\* ------------------------------------------------------------------------
\* const cost = clamp((args.feeBps + args.slipBps) / 10000, 0, 0.1);
cost(A) == clamp(RDiv(Num(A.feeBps + A.slipBps), Num(10000)), Zero, <<1, 10>>)

\* mutant of ChargeCost: the cost of a round trip charged on each leg
ChargeCostRoundTrip(e) == [e EXCEPT !.k = @ + 2]

\* equity *= 1 - cost
ChargeCost(e) == [e EXCEPT !.k = @ + 1]

\* mutant of ApplyReturn: the return of a short position, equity *= 1 - r
ApplyReturnInverted(e, r) == [e EXCEPT !.m = RMul(@, RSub(One, r))]

\* mutant of ApplyReturn: equity *= r
ApplyReturnNoBase(e, r) == [e EXCEPT !.m = RMul(@, r)]

\* equity *= 1 + r
ApplyReturn(e, r) == [e EXCEPT !.m = RMul(@, RAdd(One, r))]

\* the number held by equity
EquityValue(e, A) == RMul(RPow(RSub(One, cost(A)), e.k), e.m)

\* mutant of exposureForDay: scaling only above the threshold (c > thr)
exposureForDayStrict(A, ecbd, dayIso) ==
  IF ~A.eventScaleOn THEN One
  ELSE LET c == IF dayIso \in DOMAIN ecbd THEN ecbd[dayIso] ELSE 0
       IN  IF c > A.eventCountThr THEN clamp(A.eventScale, Zero, One)
           ELSE One

\* mutant of exposureForDay: an event day takes the position off the market
exposureForDayOffOnEvents(A, ecbd, dayIso) ==
  IF ~A.eventScaleOn THEN One
  ELSE LET c == IF dayIso \in DOMAIN ecbd THEN ecbd[dayIso] ELSE 0
       IN  IF c >= A.eventCountThr THEN Zero ELSE One

\* function exposureForDay(dayIso)
exposureForDay(A, ecbd, dayIso) ==
  IF ~A.eventScaleOn THEN One
  ELSE LET c == IF dayIso \in DOMAIN ecbd THEN ecbd[dayIso] ELSE 0
       IN  IF c >= A.eventCountThr THEN clamp(A.eventScale, Zero, One)
           ELSE One

\* const desired = args.signal[i - 1] ? 1 : 0;
Desired(sg) == IF sg # 0 THEN 1 ELSE 0

\* mutant of AllowEntry: an undefined ratio lets the entry pass
AllowEntryNullPasses(s, A, sg, vr) ==
  IF A.volumeGateOn /\ s.pos = 0 /\ Desired(sg) = 1
  THEN (IF vr = null THEN TRUE ELSE RGe(vr, A.volumeGateThr))
  ELSE TRUE

\* mutant of AllowEntry: no entry once the run has traded
AllowEntryOncePerRun(s, A, sg, vr) ==
  IF s.pos = 0 /\ Desired(sg) = 1 /\ s.trades > 0 THEN FALSE
  ELSE IF A.volumeGateOn /\ s.pos = 0 /\ Desired(sg) = 1
  THEN (IF vr = null THEN FALSE ELSE RGe(vr, A.volumeGateThr))
  ELSE TRUE

\* Volume gate: apply only to new entries.
AllowEntry(s, A, sg, vr) ==
  IF A.volumeGateOn /\ s.pos = 0 /\ Desired(sg) = 1
  THEN (IF vr = null THEN FALSE ELSE RGe(vr, A.volumeGateThr))
  ELSE TRUE

\* mutant of EntryStop: an ATR of 0 sets a stop too (a >= 0)
EntryStopAtZeroAtr(A, prevClose, a) ==
  IF a # null /\ isFinite(a) /\ RGe(a, Zero)
  THEN RSub(prevClose, RMul(A.atrStopK, a))
  ELSE NaN

\* stop level computed at an entry
EntryStop(A, prevClose, a) ==
  IF a # null /\ isFinite(a) /\ RGt(a, Zero)
  THEN RSub(prevClose, RMul(A.atrStopK, a))
  ELSE NaN

\* mutant of SignalExitBooked: a break-even exit is a loss (pnl > 0)
SignalExitBookedStrict(s, prevClose) ==
  IF isFinite(s.entryPrice) /\ RGt(prevClose, Zero)
  THEN (IF RGt(RSub(RDiv(prevClose, s.entryPrice), One), Zero)
        THEN [s EXCEPT !.wins = @ + 1] ELSE [s EXCEPT !.losses = @ + 1])
  ELSE s

\* win/loss record of a signal exit
SignalExitBooked(s, prevClose) ==
  IF isFinite(s.entryPrice) /\ RGt(prevClose, Zero)
  THEN (IF RGe(RSub(RDiv(prevClose, s.entryPrice), One), Zero)
        THEN [s EXCEPT !.wins = @ + 1] ELSE [s EXCEPT !.losses = @ + 1])
  ELSE s

\* mutant of TransitionStep: the gate sets desired to 0 whatever the position
TransitionStepGateExits(s, A, prevClose, sg, vr, a) ==
  LET gated == A.volumeGateOn /\ Desired(sg) = 1
                 /\ (vr = null \/ ~RGe(vr, A.volumeGateThr))
      desired == IF gated THEN 0 ELSE Desired(sg)
  IN  IF desired # s.pos
      THEN LET s1 == [s EXCEPT !.equity = ChargeCost(@),
                               !.trades = @ + 1,
                               !.pos = desired]
           IN  IF desired = 1
               THEN [s1 EXCEPT !.entryPrice = prevClose,
                               !.stopLevel = EntryStop(A, prevClose, a)]
               ELSE [SignalExitBooked(s1, prevClose)
                       EXCEPT !.entryPrice = NaN, !.stopLevel = NaN]
      ELSE s

\* mutant of TransitionStep: the win/loss block runs for every trade, after
\* entryPrice is set
TransitionStepBooksEntry(s, A, prevClose, sg, vr, a) ==
  LET desired == Desired(sg)
  IN  IF desired # s.pos
      THEN IF desired = 1 /\ ~AllowEntry(s, A, sg, vr)
           THEN s
           ELSE LET s1 == [s EXCEPT !.equity = ChargeCost(@),
                                    !.trades = @ + 1,
                                    !.pos = desired]
                IN  IF desired = 1
                    THEN SignalExitBooked(
                           [s1 EXCEPT !.entryPrice = prevClose,
                                      !.stopLevel = EntryStop(A, prevClose, a)],
                           prevClose)
                    ELSE [SignalExitBooked(s1, prevClose)
                            EXCEPT !.entryPrice = NaN, !.stopLevel = NaN]
      ELSE s

\* mutant of TransitionStep: `pos = desired` is done in the entry branch only
TransitionStepKeepsPos(s, A, prevClose, sg, vr, a) ==
  LET desired == Desired(sg)
  IN  IF desired # s.pos
      THEN IF desired = 1 /\ ~AllowEntry(s, A, sg, vr)
           THEN s
           ELSE LET s1 == [s EXCEPT !.equity = ChargeCost(@),
                                    !.trades = @ + 1]
                IN  IF desired = 1
                    THEN [s1 EXCEPT !.pos = 1,
                                    !.entryPrice = prevClose,
                                    !.stopLevel = EntryStop(A, prevClose, a)]
                    ELSE [SignalExitBooked(s1, prevClose)
                            EXCEPT !.entryPrice = NaN, !.stopLevel = NaN]
      ELSE s

\* mutant of TransitionStep: an entry the gate blocks still pays the cost
\* and counts as a trade
TransitionStepBlockedCharges(s, A, prevClose, sg, vr, a) ==
  LET desired == Desired(sg)
  IN  IF desired # s.pos
      THEN IF desired = 1 /\ ~AllowEntry(s, A, sg, vr)
           THEN [s EXCEPT !.equity = ChargeCost(@), !.trades = @ + 1]
           ELSE LET s1 == [s EXCEPT !.equity = ChargeCost(@),
                                    !.trades = @ + 1,
                                    !.pos = desired]
                IN  IF desired = 1
                    THEN [s1 EXCEPT !.entryPrice = prevClose,
                                    !.stopLevel = EntryStop(A, prevClose, a)]
                    ELSE [SignalExitBooked(s1, prevClose)
                            EXCEPT !.entryPrice = NaN, !.stopLevel = NaN]
      ELSE s

\* Position change at prev close (i-1): first half of the loop body
TransitionStep(s, A, prevClose, sg, vr, a) ==
  LET desired == Desired(sg)
  IN  IF desired # s.pos
      THEN IF desired = 1 /\ ~AllowEntry(s, A, sg, vr)
           THEN s
           ELSE LET s1 == [s EXCEPT !.equity = ChargeCost(@),
                                    !.trades = @ + 1,
                                    !.pos = desired]
                IN  IF desired = 1
                    THEN [s1 EXCEPT !.entryPrice = prevClose,
                                    !.stopLevel = EntryStop(A, prevClose, a)]
                    ELSE [SignalExitBooked(s1, prevClose)
                            EXCEPT !.entryPrice = NaN, !.stopLevel = NaN]
      ELSE s

\* the stop test of the daily-return block
StopHit(s, prevClose, today) ==
  isFinite(s.stopLevel) /\ RLe(today.low, s.stopLevel) /\ RGt(prevClose, Zero)

\* win/loss record of a stop exit
StopExitBooked(s) ==
  IF isFinite(s.entryPrice) /\ RGt(s.entryPrice, Zero)
  THEN (IF RGe(RSub(RDiv(s.stopLevel, s.entryPrice), One), Zero)
        THEN [s EXCEPT !.wins = @ + 1] ELSE [s EXCEPT !.losses = @ + 1])
  ELSE s

\* mutant of RealizeStep: a stopped position is liquidated at today's close
RealizeStepStopAtClose(s, A, prevClose, today, ecbd) ==
  LET expo == IF s.pos = 1 THEN exposureForDay(A, ecbd, today.t) ELSE Zero
  IN  IF s.pos = 1 /\ RGt(expo, Zero)
      THEN LET rr == IF RGt(prevClose, Zero)
                     THEN RSub(RDiv(today.close, prevClose), One)
                     ELSE Zero
               r == RMul(expo, rr)
           IN  IF StopHit(s, prevClose, today)
               THEN LET s1 == [s EXCEPT !.equity = ChargeCost(ApplyReturn(@, r)),
                                        !.trades = @ + 1]
                    IN  [s |-> [StopExitBooked(s1) EXCEPT !.pos = 0,
                                                          !.entryPrice = NaN,
                                                          !.stopLevel = NaN],
                         r |-> r]
               ELSE [s |-> [s EXCEPT !.equity = ApplyReturn(@, r)], r |-> r]
      ELSE [s |-> s, r |-> Zero]

\* mutant of RealizeStep: the exposure is looked up under the date of the
\* previous bar
RealizeStepPrevDate(s, A, prevClose, today, ecbd) ==
  LET expo == IF s.pos = 1 THEN exposureForDay(A, ecbd, today.t - 1) ELSE Zero
  IN  IF s.pos = 1 /\ RGt(expo, Zero)
      THEN IF StopHit(s, prevClose, today)
           THEN LET rStop == RSub(RDiv(s.stopLevel, prevClose), One)
                    r == RMul(expo, rStop)
                    s1 == [s EXCEPT !.equity = ChargeCost(ApplyReturn(@, r)),
                                    !.trades = @ + 1]
                IN  [s |-> [StopExitBooked(s1) EXCEPT !.pos = 0,
                                                      !.entryPrice = NaN,
                                                      !.stopLevel = NaN],
                     r |-> r]
           ELSE LET rr == IF RGt(prevClose, Zero)
                          THEN RSub(RDiv(today.close, prevClose), One)
                          ELSE Zero
                    r == RMul(expo, rr)
                IN  [s |-> [s EXCEPT !.equity = ApplyReturn(@, r)], r |-> r]
      ELSE [s |-> s, r |-> Zero]

\* mutant of RealizeStep: a stop exit leaves entryPrice and stopLevel as
\* they were
RealizeStepKeepsEntry(s, A, prevClose, today, ecbd) ==
  LET expo == IF s.pos = 1 THEN exposureForDay(A, ecbd, today.t) ELSE Zero
  IN  IF s.pos = 1 /\ RGt(expo, Zero)
      THEN IF StopHit(s, prevClose, today)
           THEN LET rStop == RSub(RDiv(s.stopLevel, prevClose), One)
                    r == RMul(expo, rStop)
                    s1 == [s EXCEPT !.equity = ChargeCost(ApplyReturn(@, r)),
                                    !.trades = @ + 1]
                IN  [s |-> [StopExitBooked(s1) EXCEPT !.pos = 0], r |-> r]
           ELSE LET rr == IF RGt(prevClose, Zero)
                          THEN RSub(RDiv(today.close, prevClose), One)
                          ELSE Zero
                    r == RMul(expo, rr)
                IN  [s |-> [s EXCEPT !.equity = ApplyReturn(@, r)], r |-> r]
      ELSE [s |-> s, r |-> Zero]

\* mutant of RealizeStep: a stop exit is not counted as a trade
RealizeStepStopUncounted(s, A, prevClose, today, ecbd) ==
  LET expo == IF s.pos = 1 THEN exposureForDay(A, ecbd, today.t) ELSE Zero
  IN  IF s.pos = 1 /\ RGt(expo, Zero)
      THEN IF StopHit(s, prevClose, today)
           THEN LET rStop == RSub(RDiv(s.stopLevel, prevClose), One)
                    r == RMul(expo, rStop)
                    s1 == [s EXCEPT !.equity = ChargeCost(ApplyReturn(@, r))]
                IN  [s |-> [StopExitBooked(s1) EXCEPT !.pos = 0,
                                                      !.entryPrice = NaN,
                                                      !.stopLevel = NaN],
                     r |-> r]
           ELSE LET rr == IF RGt(prevClose, Zero)
                          THEN RSub(RDiv(today.close, prevClose), One)
                          ELSE Zero
                    r == RMul(expo, rr)
                IN  [s |-> [s EXCEPT !.equity = ApplyReturn(@, r)], r |-> r]
      ELSE [s |-> s, r |-> Zero]

\* Daily return: second half of the loop body; yields the state and r
RealizeStep(s, A, prevClose, today, ecbd) ==
  LET expo == IF s.pos = 1 THEN exposureForDay(A, ecbd, today.t) ELSE Zero
  IN  IF s.pos = 1 /\ RGt(expo, Zero)
      THEN IF StopHit(s, prevClose, today)
           THEN LET rStop == RSub(RDiv(s.stopLevel, prevClose), One)
                    r == RMul(expo, rStop)
                    s1 == [s EXCEPT !.equity = ChargeCost(ApplyReturn(@, r)),
                                    !.trades = @ + 1]
                IN  [s |-> [StopExitBooked(s1) EXCEPT !.pos = 0,
                                                      !.entryPrice = NaN,
                                                      !.stopLevel = NaN],
                     r |-> r]
           ELSE LET rr == IF RGt(prevClose, Zero)
                          THEN RSub(RDiv(today.close, prevClose), One)
                          ELSE Zero
                    r == RMul(expo, rr)
                IN  [s |-> [s EXCEPT !.equity = ApplyReturn(@, r)], r |-> r]
      ELSE [s |-> s, r |-> Zero]

\* ------------------------------------------------------------------------
\* Reads of the input arrays
\* ------------------------------------------------------------------------
\* mutant of SignalRead: the signal of the bar being realized, args.signal[i]
SignalReadSameBar(sig, j) == sig[j + 1]

\* args.signal[i - 1] (sequences are 1-based: element i is index i - 1)
SignalRead(sig, j) == sig[j]

\* args.volumeRatio[i - 1] is read only inside the gate's if
ReadsVolumeRatio(s, A, sg) ==
  A.volumeGateOn /\ s.pos = 0 /\ Desired(sg) = 1

\* args.atr[i - 1] is read only when an entry is executed
ReadsAtr(s, A, sg, vr) ==
  Desired(sg) # s.pos /\ Desired(sg) = 1 /\ AllowEntry(s, A, sg, vr)

\* args.eventCountByDate[dayIso] is read only for a long position with
\* event scaling on
ReadsEventCount(s, A) == s.pos = 1 /\ A.eventScaleOn

\* today.low is read only in the stop test, behind isFinite(stopLevel)
ReadsLow(s, A, ecbd, t) ==
  s.pos = 1 /\ RGt(exposureForDay(A, ecbd, t), Zero) /\ isFinite(s.stopLevel)

VRChoice(rd) == IF rd THEN VRs ELSE {null}

AtrChoice(rd) == IF rd THEN ATRs ELSE {null}

EventChoice(rd) == IF rd THEN EventCounts ELSE {-1}

LowChoice(rd) == IF rd THEN LowOffsets ELSE {Zero}

\* the map with the count of date t set (or the date left out)
WithEvent(ecbd, t, c) == IF c < 0 THEN ecbd ELSE (t :> c) @@ ecbd

NewRow(t, c, off) == [t |-> t, low |-> RSub(c, off), close |-> c]

\* ------------------------------------------------------------------------
\* The second run of SpecPair
\* ------------------------------------------------------------------------
NoAlt == [on |-> FALSE]

\* no indicator series computed
NoInd == [fn |-> "none"]

\* no invocation of loadPrice was made
NoLoad == [on |-> FALSE]

InitialAlt(sig) ==
  [on |-> TRUE, signal |-> sig, s |-> InitialState,
   curve |-> <<>>, daily |-> <<>>, result |-> [status |-> "pending"]]

\* ------------------------------------------------------------------------
\* Initial states
\* ------------------------------------------------------------------------
InitRunOn(closes0) ==
  /\ args \in LiveConfigs
  /\ n \in 0..MaxBars
  /\ signal \in [1..n -> Signals]
  /\ rows \in IF n = 0 THEN {<<>>}
              ELSE {<<NewRow(0, c, Zero)>> : c \in closes0}
  /\ atr = <<>>
  /\ volumeRatio = <<>>
  /\ eventCountByDate = <<>>
  /\ pc = "call"
  /\ i = 0
  /\ equity = InitialState.equity
  /\ pos = InitialState.pos
  /\ entryPrice = InitialState.entryPrice
  /\ stopLevel = InitialState.stopLevel
  /\ trades = 0
  /\ wins = 0
  /\ losses = 0
  /\ curve = <<>>
  /\ daily = <<>>
  /\ result = [status |-> "pending"]
  /\ atBarStart = InitialState
  /\ ind = NoInd
  /\ load = NoLoad

InitRun == InitRunOn(ClosesOn(0))

Init == InitRun /\ alt = NoAlt

\* the second signal array: the first with one element replaced, or none.
\* (Arrays that differ in several elements are linked by a chain of arrays
\* that differ in one, and signal ranges over all arrays.)
OneFlip(sig) ==
  {sig} \cup {[sig EXCEPT ![d] = 1 - @] : d \in DOMAIN sig}

\* configurations of the two-run specification: one cost and stop setting
PairConfigs ==
  {c \in LiveConfigs :
     c.feeBps = 50 /\ c.atrStopK = Num(2) /\ c.eventScale # <<3, 2>>}

InitPair ==
  /\ InitRun
  /\ args \in PairConfigs
  /\ alt \in {InitialAlt(sg) : sg \in OneFlip(signal)}

\* ------------------------------------------------------------------------
\* Steps of one call of backtestFromSignal
\* ------------------------------------------------------------------------
SetState(s) ==
  /\ equity' = s.equity
  /\ pos' = s.pos
  /\ entryPrice' = s.entryPrice
  /\ stopLevel' = s.stopLevel
  /\ trades' = s.trades
  /\ wins' = s.wins
  /\ losses' = s.losses

\* mutant of TooShort: only the empty series is refused
TooShortEmptyOnly(len) == len < 1

\* if (n < 2) return null
TooShort(len) == len < 2

ReturnNullRun ==
  /\ pc = "call"
  /\ TooShort(n)
  /\ pc' = "done"
  /\ result' = [status |-> "null"]
  /\ UNCHANGED <<inputVars, i, runVars, curve, daily, atBarStart, ind, load>>

\* mutant of EnterLoopRun: the trade state is not declared afresh, so a
\* call starts from what the call before it left
EnterLoopRunKeepsState ==
  /\ pc = "call"
  /\ ~TooShort(n)
  /\ curve' = <<>>
  /\ daily' = <<>>
  /\ i' = 1
  /\ pc' = IF 1 < n THEN "transition" ELSE "finalize"
  /\ UNCHANGED <<inputVars, runVars, result, atBarStart, ind, load>>

\* the declarations before the loop, `let i = 1` and the first loop test
EnterLoopRun ==
  /\ pc = "call"
  /\ ~TooShort(n)
  /\ SetState(InitialState)
  /\ curve' = <<>>
  /\ daily' = <<>>
  /\ i' = 1
  /\ pc' = IF 1 < n THEN "transition" ELSE "finalize"
  /\ UNCHANGED <<inputVars, result, atBarStart, ind, load>>

\* lines 1096-1136 of iteration i, with volumeRatio[i-1] = vr, atr[i-1] = a
TransitionRun(vr, a) ==
  /\ pc = "transition"
  /\ atBarStart' = State
  /\ SetState(TransitionStep(State, args, Row(i - 1).close,
                             SignalRead(signal, i), vr, a))
  /\ volumeRatio' = Append(volumeRatio, vr)
  /\ atr' = Append(atr, a)
  /\ pc' = "realize"
  /\ UNCHANGED <<args, n, rows, signal, eventCountByDate, i, curve, daily,
                 result, ind, load>>

\* mutant of RealizeRun: a bar that is FLAT after the transition gets no
\* curve point and no return
RealizeRunSkipsFlat(today, c) ==
  /\ pc = "realize"
  /\ LET ecbd == WithEvent(eventCountByDate, today.t, c)
         out == RealizeStep(State, args, Row(i - 1).close, today, ecbd)
     IN  /\ SetState(out.s)
         /\ curve' = IF pos = 0 THEN curve
                     ELSE Append(curve, [t |-> today.t,
                                         equity |-> out.s.equity])
         /\ daily' = IF pos = 0 THEN daily ELSE Append(daily, out.r)
         /\ eventCountByDate' = ecbd
  /\ rows' = Append(rows, today)
  /\ i' = i + 1
  /\ pc' = IF i + 1 < n THEN "transition" ELSE "finalize"
  /\ UNCHANGED <<args, n, signal, atr, volumeRatio, result, atBarStart,
                 ind, load>>

\* lines 1138-1173 of iteration i and the loop's i++ and test, with
\* rows[i] = today and the event count of today.t = c
RealizeRun(today, c) ==
  /\ pc = "realize"
  /\ LET ecbd == WithEvent(eventCountByDate, today.t, c)
         out == RealizeStep(State, args, Row(i - 1).close, today, ecbd)
     IN  /\ SetState(out.s)
         /\ curve' = Append(curve, [t |-> today.t, equity |-> out.s.equity])
         /\ daily' = Append(daily, out.r)
         /\ eventCountByDate' = ecbd
  /\ rows' = Append(rows, today)
  /\ i' = i + 1
  /\ pc' = IF i + 1 < n THEN "transition" ELSE "finalize"
  /\ UNCHANGED <<args, n, signal, atr, volumeRatio, result, atBarStart,
                 ind, load>>

\* the result record (cagr and sharpe need real powers and roots and are
\* left out; totalReturn and maxDrawdown are the operators below)
ResultOf(A, s, cv, dl) ==
  [status |-> "ok", curve |-> cv, daily |-> dl, trades |-> s.trades,
   wins |-> s.wins, losses |-> s.losses,
   costBps |-> A.feeBps + A.slipBps]

\* mutant of FinalizeRun: a position still open after the last bar is closed
\* at the last close, with an exit cost, a trade and a win/loss record
FinalizeRunClosesOpen ==
  /\ pc = "finalize"
  /\ LET s == IF pos = 1
              THEN [SignalExitBooked([State EXCEPT !.equity = ChargeCost(@),
                                                   !.trades = @ + 1,
                                                   !.pos = 0],
                                     Row(n - 1).close)
                      EXCEPT !.entryPrice = NaN, !.stopLevel = NaN]
              ELSE State
     IN  /\ SetState(s)
         /\ result' = ResultOf(args, s, curve, daily)
  /\ pc' = "done"
  /\ UNCHANGED <<inputVars, i, curve, daily, atBarStart, ind, load>>

FinalizeRun ==
  /\ pc = "finalize"
  /\ result' = ResultOf(args, State, curve, daily)
  /\ pc' = "done"
  /\ UNCHANGED <<inputVars, i, runVars, curve, daily, atBarStart, ind, load>>

\* const totalReturn = equity - 1
totalReturn == RSub(EquityValue(equity, args), One)

\* ------------------------------------------------------------------------
\* Spec: one run
\* ------------------------------------------------------------------------
ReturnNull == ReturnNullRun /\ UNCHANGED alt

EnterLoop == EnterLoopRun /\ UNCHANGED alt

Transition ==
  /\ pc = "transition"
  /\ \E vr \in VRChoice(ReadsVolumeRatio(State, args, SignalRead(signal, i))) :
       \E a \in AtrChoice(ReadsAtr(State, args, SignalRead(signal, i), vr)) :
         TransitionRun(vr, a)
  /\ UNCHANGED alt

Realize ==
  /\ pc = "realize"
  /\ \E c \in EventChoice(ReadsEventCount(State, args)) :
       \E off \in LowChoice(ReadsLow(State, args,
                                     WithEvent(eventCountByDate, i, c), i)) :
         \E cl \in ClosesOn(i) : RealizeRun(NewRow(i, cl, off), c)
  /\ UNCHANGED alt

Finalize == FinalizeRun /\ UNCHANGED alt

Next == ReturnNull \/ EnterLoop \/ Transition \/ Realize \/ Finalize

Spec == Init /\ [][Next]_vars

\* ------------------------------------------------------------------------
\* SpecPair: two runs of backtestFromSignal on the same rows, atr,
\* volumeRatio, eventCountByDate and configuration, each with its own
\* signal array.  An array element is drawn when either run reads it.
\* ------------------------------------------------------------------------
PairReturnNull ==
  /\ ReturnNullRun
  /\ alt' = [alt EXCEPT !.result = [status |-> "null"]]

PairEnterLoop ==
  /\ EnterLoopRun
  /\ alt' = [alt EXCEPT !.s = InitialState, !.curve = <<>>, !.daily = <<>>]

PairTransition ==
  /\ pc = "transition"
  /\ LET sgA == SignalRead(signal, i)
         sgB == SignalRead(alt.signal, i)
     IN  \E vr \in VRChoice(ReadsVolumeRatio(State, args, sgA)
                            \/ ReadsVolumeRatio(alt.s, args, sgB)) :
           \E a \in AtrChoice(ReadsAtr(State, args, sgA, vr)
                              \/ ReadsAtr(alt.s, args, sgB, vr)) :
             /\ TransitionRun(vr, a)
             /\ alt' = [alt EXCEPT
                          !.s = TransitionStep(@, args, Row(i - 1).close,
                                               sgB, vr, a)]

PairRealize ==
  /\ pc = "realize"
  /\ \E c \in EventChoice(ReadsEventCount(State, args)
                          \/ ReadsEventCount(alt.s, args)) :
       LET ecbd == WithEvent(eventCountByDate, i, c)
       IN  \E off \in LowChoice(ReadsLow(State, args, ecbd, i)
                                \/ ReadsLow(alt.s, args, ecbd, i)) :
             \E cl \in ClosesOn(i) :
               LET today == NewRow(i, cl, off)
                   out == RealizeStep(alt.s, args, Row(i - 1).close,
                                      today, ecbd)
               IN  /\ RealizeRun(today, c)
                   /\ alt' = [alt EXCEPT
                                !.s = out.s,
                                !.curve = Append(@, [t |-> today.t,
                                                     equity |-> out.s.equity]),
                                !.daily = Append(@, out.r)]

PairFinalize ==
  /\ FinalizeRun
  /\ alt' = [alt EXCEPT
               !.result = ResultOf(args, alt.s, alt.curve, alt.daily)]

NextPair ==
  PairReturnNull \/ PairEnterLoop \/ PairTransition \/ PairRealize
    \/ PairFinalize

SpecPair == InitPair /\ [][NextPair]_vars

\* ------------------------------------------------------------------------
\* SpecScale: two runs of backtestFromSignal on the same rows, signal, atr,
\* volumeRatio, eventCountByDate and costs, the first with event scaling
\* enabled and the second with it disabled.
\* ------------------------------------------------------------------------
\* the configuration A with event scaling disabled
Unscaled(A) == [A EXCEPT !.eventScaleOn = FALSE]

\* configurations of the first run: scaling enabled, one cost and stop
\* setting
ScaleConfigs ==
  {c \in LiveConfigs :
     c.eventScaleOn /\ c.feeBps = 50 /\ c.atrStopK = Num(2)}

InitScale ==
  /\ InitRun
  /\ args \in ScaleConfigs
  /\ alt = InitialAlt(signal)

ScaleReturnNull ==
  /\ ReturnNullRun
  /\ alt' = [alt EXCEPT !.result = [status |-> "null"]]

ScaleEnterLoop ==
  /\ EnterLoopRun
  /\ alt' = [alt EXCEPT !.s = InitialState, !.curve = <<>>, !.daily = <<>>]

ScaleTransition ==
  /\ pc = "transition"
  /\ LET sg == SignalRead(signal, i)
         B == Unscaled(args)
     IN  \E vr \in VRChoice(ReadsVolumeRatio(State, args, sg)
                            \/ ReadsVolumeRatio(alt.s, B, sg)) :
           \E a \in AtrChoice(ReadsAtr(State, args, sg, vr)
                              \/ ReadsAtr(alt.s, B, sg, vr)) :
             /\ TransitionRun(vr, a)
             /\ alt' = [alt EXCEPT
                          !.s = TransitionStep(@, B, Row(i - 1).close,
                                               sg, vr, a)]

ScaleRealize ==
  /\ pc = "realize"
  /\ LET B == Unscaled(args)
     IN  \E c \in EventChoice(ReadsEventCount(State, args)
                              \/ ReadsEventCount(alt.s, B)) :
           LET ecbd == WithEvent(eventCountByDate, i, c)
           IN  \E off \in LowChoice(ReadsLow(State, args, ecbd, i)
                                    \/ ReadsLow(alt.s, B, ecbd, i)) :
                 \E cl \in ClosesOn(i) :
                   LET today == NewRow(i, cl, off)
                       out == RealizeStep(alt.s, B, Row(i - 1).close,
                                          today, ecbd)
                   IN  /\ RealizeRun(today, c)
                       /\ alt' = [alt EXCEPT
                                    !.s = out.s,
                                    !.curve = Append(@,
                                                [t |-> today.t,
                                                 equity |-> out.s.equity]),
                                    !.daily = Append(@, out.r)]

ScaleFinalize ==
  /\ FinalizeRun
  /\ alt' = [alt EXCEPT
               !.result = ResultOf(Unscaled(args), alt.s, alt.curve,
                                   alt.daily)]

NextScale ==
  ScaleReturnNull \/ ScaleEnterLoop \/ ScaleTransition \/ ScaleRealize
    \/ ScaleFinalize

SpecScale == InitScale /\ [][NextScale]_vars

\* ------------------------------------------------------------------------
\* Indicator library and signal generators
\* ------------------------------------------------------------------------
\* rows.map((r) => r.close)
Closes(rs) == [j \in 1..Len(rs) |-> rs[j].close]

\* Array(len).fill(v)
Fill(len, v) == [j \in 1..len |-> v]

\* Math.abs
RAbs(x) == <<Abs(x[1]), x[2]>>

\* Math.max of two numbers: NaN if either is NaN
MathMax(x, y) == IF x = NaN \/ y = NaN THEN NaN ELSE RMax(x, y)

\* sum of a sequence of numbers
RECURSIVE SumSeq(_)
SumSeq(xs) ==
  IF xs = <<>> THEN Zero
  ELSE RAdd(SumSeq(SubSeq(xs, 1, Len(xs) - 1)), xs[Len(xs)])

\* the loop of sma from element k (1-based) on, with its locals s, q, out
RECURSIVE smaLoop(_, _, _, _, _, _)
smaLoop(values, win, k, s, q, out) ==
  IF k > Len(values) THEN out
  ELSE LET q1 == Append(q, values[k])
           s1 == RAdd(s, values[k])
           s2 == IF Len(q1) > win THEN RSub(s1, Head(q1)) ELSE s1
           q2 == IF Len(q1) > win THEN Tail(q1) ELSE q1
       IN  smaLoop(values, win, k + 1, s2, q2,
                   IF Len(q2) = win
                   THEN [out EXCEPT ![k] = RDiv(s2, Num(win))]
                   ELSE out)

\* mutant of sma: the sliding sum never drops the element leaving the window
smaNeverDrops(values, win) ==
  [j \in 1..Len(values) |->
     IF j < win THEN null
     ELSE RDiv(SumSeq(SubSeq(values, 1, j)), Num(win))]

\* function sma(values, win)
sma(values, win) ==
  smaLoop(values, win, 1, Zero, <<>>, Fill(Len(values), null))

\* mutant of RsiValue: flat prices (no gain, no loss) give the neutral 50
RsiValueFlatNeutral(gain, loss) ==
  IF loss = Zero /\ gain = Zero THEN Num(50)
  ELSE LET rs == IF loss = Zero THEN Infinity ELSE RDiv(gain, loss)
       IN  RSub(Num(100), RDiv(Num(100), RAdd(One, rs)))

\* rs = losses === 0 ? Infinity : gains / losses; 100 - 100 / (1 + rs)
RsiValue(gain, loss) ==
  LET rs == IF loss = Zero THEN Infinity ELSE RDiv(gain, loss)
  IN  RSub(Num(100), RDiv(Num(100), RAdd(One, rs)))

\* the loop of rsi from the code's index k on (closes[k] is element k + 1);
\* gain and loss are the locals gains and losses
RECURSIVE rsiLoop(_, _, _, _, _, _)
rsiLoop(closes, period, k, gain, loss, out) ==
  IF k >= Len(closes) THEN out
  ELSE LET chg == RSub(closes[k + 1], closes[k])
           g == RMax(Zero, chg)
           l == RMax(Zero, RNeg(chg))
       IN  IF k <= period
           THEN LET g1 == RAdd(gain, g)
                    l1 == RAdd(loss, l)
                IN  rsiLoop(closes, period, k + 1, g1, l1,
                            IF k = period
                            THEN [out EXCEPT ![k + 1] = RsiValue(g1, l1)]
                            ELSE out)
           ELSE LET g1 == RDiv(RAdd(RMul(gain, Num(period - 1)), g),
                               Num(period))
                    l1 == RDiv(RAdd(RMul(loss, Num(period - 1)), l),
                               Num(period))
                IN  rsiLoop(closes, period, k + 1, g1, l1,
                            [out EXCEPT ![k + 1] = RsiValue(g1, l1)])

\* function rsi(closes, period)
rsi(closes, period) ==
  rsiLoop(closes, period, 1, Zero, Zero, Fill(Len(closes), null))

\* the true range of the bar with the code's index k >= 1
TrueRange(rs, k) ==
  LET prevClose == rs[k].close
      hi == rs[k + 1].high
      lo == rs[k + 1].low
      tr1 == RSub(hi, lo)
      tr2 == RAbs(RSub(hi, prevClose))
      tr3 == RAbs(RSub(lo, prevClose))
  IN  MathMax(tr1, MathMax(tr2, tr3))

\* the array trs: NaN for bar 0, then the true ranges
TrueRanges(rs) ==
  [j \in 1..Len(rs) |-> IF j = 1 THEN NaN ELSE TrueRange(rs, j - 1)]

\* number of finite elements of q
FiniteCount(q) == Cardinality({j \in 1..Len(q) : isFinite(q[j])})

\* mutant of AtrValue: the denominator is always the window length
AtrValueFixedDenominator(s, q) == RDiv(s, Num(Len(q)))

\* denom = q.filter(isFinite).length; denom > 0 ? s / denom : null
AtrValue(s, q) ==
  IF FiniteCount(q) > 0 THEN RDiv(s, Num(FiniteCount(q))) ELSE null

\* the second loop of computeATRSeries from element k (1-based) on
RECURSIVE atrLoop(_, _, _, _, _, _)
atrLoop(trs, period, k, s, q, out) ==
  IF k > Len(trs) THEN out
  ELSE LET v == trs[k]
           q1 == Append(q, v)
           s1 == IF isFinite(v) THEN RAdd(s, v) ELSE s
           over == Len(q1) > period
           s2 == IF over /\ isFinite(Head(q1)) THEN RSub(s1, Head(q1)) ELSE s1
           q2 == IF over THEN Tail(q1) ELSE q1
       IN  atrLoop(trs, period, k + 1, s2, q2,
                   IF Len(q2) = period
                   THEN [out EXCEPT ![k] = AtrValue(s2, q2)]
                   ELSE out)

\* function computeATRSeries(rows, period)
computeATRSeries(rs, period) ==
  IF Len(rs) < 2 THEN Fill(Len(rs), null)
  ELSE atrLoop(TrueRanges(rs), period, 1, Zero, <<>>, Fill(Len(rs), null))

\* mutant of TrendSignalAt: the close is not compared with the slow average
TrendSignalAtNoCloseTest(fi, si, cl) ==
  IF fi = null \/ si = null THEN 0
  ELSE IF RGt(fi, si) THEN 1 ELSE 0

\* the body of the loop of buildBacktestSignalTrend
TrendSignalAt(fi, si, cl) ==
  IF fi = null \/ si = null THEN 0
  ELSE IF RGt(fi, si) /\ RGt(cl, si) THEN 1 ELSE 0

\* function buildBacktestSignalTrend(rows, fast, slow)
buildBacktestSignalTrend(rs, fast, slow) ==
  LET closes == Closes(rs)
      f == sma(closes, fast)
      s == sma(closes, slow)
  IN  [signal |-> [j \in 1..Len(rs) |-> TrendSignalAt(f[j], s[j], closes[j])],
       smaFast |-> f, smaSlow |-> s]

\* mutant of MeanRevStep: two ifs, so a bar that enters can exit at once
MeanRevStepTwoMoves(p, rv, entry, exit) ==
  LET p1 == IF p = 0 /\ RLt(rv, entry) THEN 1 ELSE p
  IN  IF p1 = 1 /\ RGt(rv, exit) THEN 0 ELSE p1

\* if (pos === 0 && rv < entry) pos = 1; else if (pos === 1 && rv > exit)
\* pos = 0;
MeanRevStep(p, rv, entry, exit) ==
  IF p = 0 /\ RLt(rv, entry) THEN 1
  ELSE IF p = 1 /\ RGt(rv, exit) THEN 0
  ELSE p

\* the loop of buildBacktestSignalMeanRev from element k (1-based) on
RECURSIVE meanRevLoop(_, _, _, _, _, _)
meanRevLoop(r, entry, exit, k, p, sig) ==
  IF k > Len(r) THEN sig
  ELSE LET p1 == IF r[k] = null THEN p ELSE MeanRevStep(p, r[k], entry, exit)
       IN  meanRevLoop(r, entry, exit, k + 1, p1, [sig EXCEPT ![k] = p1])

\* function buildBacktestSignalMeanRev(rows, rsiPeriod, entry, exit)
buildBacktestSignalMeanRev(rs, rsiPeriod, entry, exit) ==
  LET r == rsi(Closes(rs), rsiPeriod)
  IN  [signal |-> meanRevLoop(r, entry, exit, 1, 0, Fill(Len(rs), 0)),
       rsiSeries |-> r]

\* the loop of computeVolumeRatioSeries from element k (1-based) on
RECURSIVE volumeRatioLoop(_, _, _, _, _, _)
volumeRatioLoop(rs, win, k, s, q, out) ==
  IF k > Len(rs) THEN out
  ELSE LET v == rs[k].volume
           q1 == Append(q, v)
           s1 == RAdd(s, v)
           s2 == IF Len(q1) > win THEN RSub(s1, Head(q1)) ELSE s1
           q2 == IF Len(q1) > win THEN Tail(q1) ELSE q1
           avg == RDiv(s2, Num(win))
       IN  volumeRatioLoop(rs, win, k + 1, s2, q2,
                           IF Len(q2) = win
                           THEN [out EXCEPT ![k] = IF RGt(avg, Zero)
                                                   THEN RDiv(v, avg)
                                                   ELSE null]
                           ELSE out)

\* function computeVolumeRatioSeries(rows, win)
computeVolumeRatioSeries(rs, win) ==
  volumeRatioLoop(rs, win, 1, Zero, <<>>, Fill(Len(rs), null))

\* mutant of DrawdownAt: the starting equity 1 counts as a peak
DrawdownAtFromStart(e, peak) ==
  LET p == IF RGt(One, peak) THEN One ELSE peak
  IN  RDiv(RSub(e, p), p)

\* const dd = peak > 0 ? (e - peak) / peak : 0
DrawdownAt(e, peak) ==
  IF RGt(peak, Zero) THEN RDiv(RSub(e, peak), peak) ELSE Zero

\* the loop of computeMaxDrawdownFromCurve over the equity values es
RECURSIVE maxDrawdownLoop(_, _, _, _)
maxDrawdownLoop(es, k, peak, mdd) ==
  IF k > Len(es) THEN mdd
  ELSE LET e == es[k]
           peak1 == IF RGt(e, peak) THEN e ELSE peak
           dd == DrawdownAt(e, peak1)
       IN  maxDrawdownLoop(es, k + 1, peak1, IF RLt(dd, mdd) THEN dd ELSE mdd)

\* function computeMaxDrawdownFromCurve(curve), on a curve of the run with
\* configuration A
computeMaxDrawdownFromCurve(cv, A) ==
  maxDrawdownLoop([j \in 1..Len(cv) |-> EquityValue(cv[j].equity, A)],
                  1, NegInfinity, Zero)

\* const maxDrawdown = computeMaxDrawdownFromCurve(curve)
maxDrawdown == computeMaxDrawdownFromCurve(curve, args)

\* ------------------------------------------------------------------------
\* SpecInd: one application of an indicator or a signal generator to rows
\* drawn in full
\* ------------------------------------------------------------------------
\* a row with close c, high c + up (or NaN) and low c - down
Bar(c, up, down) ==
  [close |-> Num(c),
   high |-> IF up < 0 THEN NaN ELSE Num(c + up),
   low |-> Num(c - down)]

\* the rows a series is made of; the parsers keep a row whose close is
\* finite, so a high can be NaN
IndBars == {Bar(100, 1, 1), Bar(104, 2, 0), Bar(97, 1, 1), Bar(100, -1, 2)}

Windows == {1, 2, 3}

FastSlow == {<<1, 2>>, <<2, 3>>, <<3, 2>>}

\* entry and exit thresholds of the oscillator
EntryExit == {<<Num(30), Num(70)>>, <<Num(70), Num(30)>>}

\* the configuration of the smoke test in runSelfTestsOnce
SelfTestArgs ==
  [feeBps |-> 0, slipBps |-> 0, atrStopK |-> Num(3),
   volumeGateOn |-> FALSE, volumeGateThr |-> Num(1),
   eventScaleOn |-> FALSE, eventCountThr |-> 10, eventScale |-> <<1, 2>>]

\* no call of backtestFromSignal in progress
IdleRun ==
  /\ signal = <<>>
  /\ atr = <<>>
  /\ volumeRatio = <<>>
  /\ eventCountByDate = <<>>
  /\ i = 0
  /\ equity = InitialState.equity
  /\ pos = InitialState.pos
  /\ entryPrice = InitialState.entryPrice
  /\ stopLevel = InitialState.stopLevel
  /\ trades = 0
  /\ wins = 0
  /\ losses = 0
  /\ curve = <<>>
  /\ daily = <<>>
  /\ result = [status |-> "pending"]
  /\ atBarStart = InitialState
  /\ alt = NoAlt
  /\ ind = NoInd

InitInd ==
  /\ args = SelfTestArgs
  /\ n \in 0..MaxLen
  /\ rows \in [1..n -> IndBars]
  /\ pc = "indicators"
  /\ IdleRun
  /\ load = NoLoad

\* ind becomes the record of one application
Applied(rec) ==
  /\ pc = "indicators"
  /\ ind = NoInd
  /\ ind' = rec
  /\ UNCHANGED <<inputVars, pc, i, runVars, curve, daily, result,
                 atBarStart, alt, load>>

ApplySma ==
  \E win \in Windows :
    Applied([fn |-> "sma", win |-> win, out |-> sma(Closes(rows), win)])

ApplyRsi ==
  \E period \in Windows :
    Applied([fn |-> "rsi", period |-> period,
             out |-> rsi(Closes(rows), period)])

ApplyAtr ==
  \E period \in Windows :
    Applied([fn |-> "atr", period |-> period,
             out |-> computeATRSeries(rows, period)])

ApplyTrend ==
  \E fs \in FastSlow :
    Applied([fn |-> "trend", fast |-> fs[1], slow |-> fs[2],
             out |-> buildBacktestSignalTrend(rows, fs[1], fs[2])])

ApplyMeanRev ==
  \E period \in Windows \ {3}, ee \in EntryExit :
    Applied([fn |-> "meanrev", period |-> period,
             entry |-> ee[1], exit |-> ee[2],
             out |-> buildBacktestSignalMeanRev(rows, period, ee[1], ee[2])])

\* what is taken off a close to make an equity value of it
Offsets == {0, 100}

\* a curve whose equities are the closes of rs less off, in hundredths
CurveOf(rs, off) ==
  [j \in 1..Len(rs) |->
     [t |-> j,
      equity |-> [k |-> 0, m |-> RDiv(RSub(rs[j].close, Num(off)), Num(100))]]]

ApplyMaxDrawdown ==
  \E off \in Offsets :
    LET cv == CurveOf(rows, off)
    IN  Applied([fn |-> "maxDrawdown", curve |-> cv,
                 out |-> computeMaxDrawdownFromCurve(cv, args)])

NextInd ==
  \/ ApplySma
  \/ ApplyRsi
  \/ ApplyAtr
  \/ ApplyTrend
  \/ ApplyMeanRev
  \/ ApplyMaxDrawdown

SpecInd == InitInd /\ [][NextInd]_vars

\* ------------------------------------------------------------------------
\* A call of backtestFromSignal on arrays given in full
\* ------------------------------------------------------------------------
\* lines 1096-1136 of iteration i
TransitionGiven ==
  /\ pc = "transition"
  /\ atBarStart' = State
  /\ SetState(TransitionStep(State, args, Row(i - 1).close,
                             SignalRead(signal, i), volumeRatio[i], atr[i]))
  /\ pc' = "realize"
  /\ UNCHANGED <<inputVars, i, curve, daily, result, ind, load>>

\* lines 1138-1173 of iteration i and the loop's i++ and test
RealizeGiven ==
  /\ pc = "realize"
  /\ LET out == RealizeStep(State, args, Row(i - 1).close, Row(i),
                            eventCountByDate)
     IN  /\ SetState(out.s)
         /\ curve' = Append(curve, [t |-> Row(i).t, equity |-> out.s.equity])
         /\ daily' = Append(daily, out.r)
  /\ i' = i + 1
  /\ pc' = IF i + 1 < n THEN "transition" ELSE "finalize"
  /\ UNCHANGED <<inputVars, result, atBarStart, ind, load>>

\* ------------------------------------------------------------------------
\* SpecSelfTest: the backtest smoke test of runSelfTestsOnce on rows with
\* strictly increasing closes
\* ------------------------------------------------------------------------
\* close[j] - close[0] for the steps st
RECURSIVE StepSum(_, _)
StepSum(st, j) == IF j <= 1 THEN 0 ELSE StepSum(st, j - 1) + st[j]

\* the row of bar t: high one above the close, low `down` below it
SelfTestRow(t, c, down) ==
  [t |-> t, open |-> Num(c), high |-> Num(c + 1), low |-> Num(c - down),
   close |-> Num(c), volume |-> Num(1000)]

\* series of len rows whose closes rise by 1 or 2 a bar from 100
SelfTestRows(len) ==
  {[j \in 1..len |-> SelfTestRow(j - 1, 100 + StepSum(st, j), dn[j])] :
     st \in [2..len -> {1, 2}], dn \in [1..len -> {1, 8}]}

InitSelfTest ==
  /\ args = SelfTestArgs
  /\ n \in 0..MaxLen
  /\ rows \in SelfTestRows(n)
  /\ pc = "selftest"
  /\ IdleRun
  /\ load = NoLoad

\* the three series computed before the call
SelfTestPrepare ==
  /\ pc = "selftest"
  /\ \E fs \in FastSlow, period \in Windows \ {1} :
       LET tr == buildBacktestSignalTrend(rows, fs[1], fs[2])
       IN  /\ atr' = computeATRSeries(rows, period)
           /\ volumeRatio' = computeVolumeRatioSeries(rows, 2)
           /\ signal' = tr.signal
           /\ ind' = [fn |-> "trend", fast |-> fs[1], slow |-> fs[2],
                      out |-> tr]
  /\ pc' = "call"
  /\ UNCHANGED <<args, n, rows, eventCountByDate, i, runVars, curve, daily,
                 result, atBarStart, alt, load>>

SelfTestTransition == TransitionGiven /\ UNCHANGED alt

SelfTestRealize == RealizeGiven /\ UNCHANGED alt

NextSelfTest ==
  SelfTestPrepare \/ ReturnNull \/ EnterLoop \/ SelfTestTransition
    \/ SelfTestRealize \/ Finalize

SpecSelfTest == InitSelfTest /\ [][NextSelfTest]_vars

\* ------------------------------------------------------------------------
\* SpecAgain: a call of backtestFromSignal, then a second call with the
\* same arguments.  The function is synchronous, so calls follow one
\* another; the locals of the second call hold what the first call left
\* until the second call's declarations are executed.
\* ------------------------------------------------------------------------
FirstReturnNull == alt = NoAlt /\ ReturnNull

FirstEnterLoop == alt = NoAlt /\ EnterLoop

FirstTransition == alt = NoAlt /\ Transition

FirstRealize == alt = NoAlt /\ Realize

FirstFinalize == alt = NoAlt /\ Finalize

\* the second call: the first call's result is kept by the caller
CallAgain ==
  /\ pc = "done"
  /\ alt = NoAlt
  /\ alt' = [on |-> FALSE, result |-> result, s |-> State]
  /\ result' = [status |-> "pending"]
  /\ pc' = "call"
  /\ UNCHANGED <<inputVars, i, runVars, curve, daily, atBarStart, ind, load>>

SecondReturnNull == alt # NoAlt /\ ReturnNullRun /\ UNCHANGED alt

SecondEnterLoop == alt # NoAlt /\ EnterLoopRun /\ UNCHANGED alt

SecondTransition == alt # NoAlt /\ TransitionGiven /\ UNCHANGED alt

SecondRealize == alt # NoAlt /\ RealizeGiven /\ UNCHANGED alt

SecondFinalize == alt # NoAlt /\ FinalizeRun /\ UNCHANGED alt

NextAgain ==
  \/ FirstReturnNull \/ FirstEnterLoop \/ FirstTransition \/ FirstRealize
  \/ FirstFinalize \/ CallAgain
  \/ SecondReturnNull \/ SecondEnterLoop \/ SecondTransition
  \/ SecondRealize \/ SecondFinalize

InitAgain == InitRun /\ args \in PairConfigs /\ alt = NoAlt

SpecAgain == InitAgain /\ [][NextAgain]_vars

\* ------------------------------------------------------------------------
\* SpecAnyPrice: one run on rows whose closes may be 0 or negative (the
\* parsers keep every row with a finite close)
\* ------------------------------------------------------------------------
AnyClosesOn(t) == ClosesOn(t) \cup {Zero, Num(-100)}

InitAnyPrice ==
  /\ InitRunOn(AnyClosesOn(0))
  /\ args \in PairConfigs
  /\ alt = NoAlt

RealizeAnyPrice ==
  /\ pc = "realize"
  /\ \E c \in EventChoice(ReadsEventCount(State, args)) :
       \E off \in LowChoice(ReadsLow(State, args,
                                     WithEvent(eventCountByDate, i, c), i)) :
         \E cl \in AnyClosesOn(i) : RealizeRun(NewRow(i, cl, off), c)
  /\ UNCHANGED alt

NextAnyPrice ==
  ReturnNull \/ EnterLoop \/ Transition \/ RealizeAnyPrice \/ Finalize

SpecAnyPrice == InitAnyPrice /\ [][NextAnyPrice]_vars

\* ------------------------------------------------------------------------
\* SpecLoad: invocations of loadPrice on one page.  An invocation runs to
\* its await in one step and from the settling of its fetch to its return
\* in another; invocations interleave at the await only.
\* ------------------------------------------------------------------------
\* invocations of loadPrice in one behaviour
MaxCalls == 2

\* symbol.trim().toUpperCase(), as a sequence of pieces
Symbols == {<<>>, <<"AAPL">>, <<"2330", ".TW">>}

\* the provider selected on the page
Providers == {"auto", "server"}

\* rows a fetch resolves with
RowCounts == {0, 2}

\* the fetch rejected
Rejected == -1

\* an invocation that returned before taking a request id
NoReq == -1

\* function guessProvider(sym)
guessProvider(sym) ==
  IF \E k \in 2..Len(sym) : sym[k] = ".TW" THEN "twse" ELSE "stooq"

\* setLastSource(...) of the provider's branch
SourceName(usedProvider) ==
  CASE usedProvider = "twse" -> "TWSE exchangeReport/STOCK_DAY"
    [] usedProvider = "stooq" -> "Stooq CSV"
    [] OTHER -> "Server /api/marketdata"

\* the Error thrown on an empty result
ZeroRowsMessage(usedProvider) ==
  CASE usedProvider = "twse" -> "TWSE returned 0 rows (range or symbol?)"
    [] usedProvider = "stooq" -> "Stooq returned 0 rows"
    [] OTHER -> "Server returned 0 rows"

\* the page before any load: rowsAll = [], lastSource = "-", lastError = "",
\* loadingRef.current = 0
InitialLoad ==
  [on |-> TRUE, now |-> 1, loadingRef |-> 0,
   rowsAll |-> [by |-> 0, len |-> 0],
   lastSource |-> "-", lastError |-> "",
   status |-> [tone |-> "neutral", msg |-> <<"initial">>],
   calls |-> <<>>]

pageVars ==
  <<inputVars, pc, i, runVars, curve, daily, result, atBarStart, alt, ind>>

InitLoad ==
  /\ args = SelfTestArgs
  /\ n = 0
  /\ rows = <<>>
  /\ pc = "page"
  /\ IdleRun
  /\ load = InitialLoad

\* if (!sym) return;
LoadPriceNoSymbol ==
  /\ load.on
  /\ Len(load.calls) < MaxCalls
  /\ \E sym \in Symbols :
       /\ sym = <<>>
       /\ load' = [load EXCEPT
                     !.calls = Append(@, [reqId |-> NoReq, sym |-> sym,
                                          usedProvider |-> "none",
                                          pc |-> "done",
                                          fetched |-> Rejected])]
  /\ UNCHANGED pageVars

\* loadPrice up to its await; Date.now() is the value the invocation
\* before it read when no millisecond elapsed since, and a later one
\* otherwise
LoadPriceCall ==
  /\ load.on
  /\ Len(load.calls) < MaxCalls
  /\ \E sym \in Symbols, provider \in Providers, elapsed \in {0, 1} :
       /\ sym # <<>>
       /\ LET reqId == load.now + elapsed
              usedProvider == IF provider = "auto" THEN guessProvider(sym)
                              ELSE provider
          IN  load' = [load EXCEPT
                         !.now = reqId,
                         !.loadingRef = reqId,
                         !.lastError = "",
                         !.status = [tone |-> "warn", msg |-> <<"loading">>],
                         !.calls = Append(@, [reqId |-> reqId, sym |-> sym,
                                              usedProvider |-> usedProvider,
                                              pc |-> "await",
                                              fetched |-> Rejected])]
  /\ UNCHANGED pageVars

\* if (loadingRef.current !== reqId) return; after the await
StillCurrent(L, reqId) == L.loadingRef = reqId

\* mutant of CatchCurrent: the catch block reports every failure
CatchCurrentAlways(L, reqId) == TRUE

\* if (loadingRef.current !== reqId) return; in the catch block
CatchCurrent(L, reqId) == L.loadingRef = reqId

\* the catch block of invocation c with message msg
Caught(L, c, msg) ==
  IF CatchCurrent(L, c.reqId)
  THEN [L EXCEPT !.lastError = msg,
                 !.lastSource = "-",
                 !.status = [tone |-> "bad", msg |-> <<"Load failed", msg>>]]
  ELSE L

\* loadPrice of invocation p from the settling of its fetch, which rejected
\* or resolved with `fetched` rows, flen of them within the date range
LoadPriceSettle(p, fetched, flen) ==
  LET c == load.calls[p]
      used == IF c.usedProvider = "stooq" /\ flen > 0 THEN flen ELSE fetched
      L == IF fetched = Rejected THEN Caught(load, c, "fetch failed")
           ELSE IF ~StillCurrent(load, c.reqId) THEN load
           ELSE IF fetched = 0
                THEN Caught(load, c, ZeroRowsMessage(c.usedProvider))
           ELSE [load EXCEPT
                   !.rowsAll = [by |-> p, len |-> used],
                   !.lastSource = SourceName(c.usedProvider),
                   !.status = [tone |-> "good",
                               msg |-> <<"Loaded", c.sym, used>>]]
  IN  /\ c.pc = "await"
      /\ load' = [L EXCEPT !.calls[p].pc = "done",
                           !.calls[p].fetched = fetched]
      /\ UNCHANGED pageVars

LoadPriceRejects ==
  /\ load.on
  /\ \E p \in 1..Len(load.calls) : LoadPriceSettle(p, Rejected, 0)

LoadPriceResolves ==
  /\ load.on
  /\ \E p \in 1..Len(load.calls), fetched \in RowCounts :
       \E flen \in {0, 1} : LoadPriceSettle(p, fetched, flen)

NextLoad ==
  \/ LoadPriceNoSymbol
  \/ LoadPriceCall
  \/ LoadPriceRejects
  \/ LoadPriceResolves

SpecLoad == InitLoad /\ [][NextLoad]_vars

\* ------------------------------------------------------------------------
\* Properties
\* ------------------------------------------------------------------------
\* number of loop iterations completed
BarsDone == Len(curve)

\* the two signal arrays agree on signal[0..b-1]
SignalsAgree(b) == \A k \in 1..b : signal[k] = alt.signal[k]

\* C1: no look-ahead.  Two runs whose inputs differ only in signal[j] for
\* j >= b have the same curve and returns through bar b, the same trade
\* state (position, equity, entry, stop, trade/win/loss counts) after the
\* transition and after the realization of bar b, and, when they agree on
\* signal[0..n-2], the same result: signal[n-1] has no influence.
C1_NoLookAhead ==
  alt.on =>
    /\ \A b \in 0..BarsDone :
         SignalsAgree(b) =>
           /\ SubSeq(curve, 1, b) = SubSeq(alt.curve, 1, b)
           /\ SubSeq(daily, 1, b) = SubSeq(alt.daily, 1, b)
    /\ (pc = "realize" /\ SignalsAgree(i)) => State = alt.s
    /\ (pc \in {"transition", "finalize", "done"} /\ SignalsAgree(BarsDone))
         => State = alt.s
    /\ (pc = "done" /\ n >= 2 /\ SignalsAgree(n - 1)) => result = alt.result

\* two finished runs that traded, agree on signal[0..n-2] and differ in
\* signal[n-1]
C1_Witness ==
  /\ alt.on /\ pc = "done" /\ n >= 3
  /\ SignalsAgree(n - 1) /\ signal[n] # alt.signal[n]
  /\ trades >= 2 /\ result.status = "ok"


\* product of (1 + r) over a sequence of returns
RECURSIVE ProdReturns(_)
ProdReturns(dl) ==
  IF dl = <<>> THEN One
  ELSE RMul(ProdReturns(SubSeq(dl, 1, Len(dl) - 1)), RAdd(One, dl[Len(dl)]))

\* a step in which the position changes executes a transaction
C2_Step ==
  IF pos' # pos
  THEN trades' = trades + 1 /\ equity'.k = equity.k + 1
  ELSE trades' = trades /\ equity'.k = equity.k

C2_State ==
  /\ equity.k = trades
  /\ equity.m = ProdReturns(daily)
  /\ (args.feeBps + args.slipBps = 100 => cost(args) = <<1, 100>>)
  /\ (args.feeBps + args.slipBps = 0 => cost(args) = Zero)
  /\ (args.feeBps + args.slipBps > 1000 => cost(args) = <<1, 10>>)
  /\ (pc = "realize" /\ BarsDone = 0 /\ pos = 1
        /\ args.feeBps = 50 /\ args.slipBps = 50
      => EquityValue(equity, args) = <<99, 100>>)

\* C2: every transaction (entry, signal exit, stop exit) multiplies equity
\* by (1 - cost) once, in the step of the transition, and adds one to
\* trades; a step without a transaction charges nothing.  So equity is
\* (1 - cost)^trades times the product of (1 + r) over the returns so far,
\* cost being clamp((feeBps + slipBps)/10000, 0, 0.1), and with 50 + 50 bps
\* equity is 0.99 after an entry on the first bar, before its price move.
C2_TransactionCost == []C2_State /\ [][C2_Step]_vars

\* a finished run with 1% cost that entered, was stopped out, entered again
\* and realized a non-zero return
C2_Witness ==
  /\ pc = "done" /\ cost(args) = <<1, 100>>
  /\ trades >= 3 /\ wins + losses >= 1 /\ equity.m # One

\* C3: with atrStopK = 0 and a stop set at the entry (ATR defined and
\* positive), a bar on which the position is LONG and low <= entryPrice
\* ends FLAT with one more trade counted, whatever the configuration.
C3_StopAlwaysFires ==
  [][(/\ pc = "realize" /\ pos = 1
      /\ args.atrStopK = Zero /\ isFinite(stopLevel)
      /\ RLe(rows'[i + 1].low, entryPrice))
     => (pos' = 0 /\ trades' = trades + 1)]_vars

\* thr is above every ratio the volumeRatio array can hold
ThrAboveAllRatios(A) == \A v \in VRs \ {null} : RLt(v, A.volumeGateThr)

\* C4: with the gate on and the threshold above every defined ratio, no
\* position is ever opened: FLAT, no trades, wins or losses, every return 0
\* and equity 1 on every curve point.
C4_GateBlocksAll ==
  (args.volumeGateOn /\ ThrAboveAllRatios(args)) =>
    /\ pos = 0 /\ trades = 0 /\ wins = 0 /\ losses = 0
    /\ equity = [k |-> 0, m |-> One]
    /\ \A b \in 1..Len(daily) : daily[b] = Zero
    /\ \A b \in 1..Len(curve) : curve[b].equity = [k |-> 0, m |-> One]
    /\ (result.status = "ok" => result.trades = 0)

\* a finished run of 3 or more bars with the gate on and too high a
\* threshold, whose signal asked for an entry that met a defined ratio
C4_Witness ==
  /\ pc = "done" /\ n >= 3
  /\ args.volumeGateOn /\ ThrAboveAllRatios(args)
  /\ \E b \in 1..Len(volumeRatio) : signal[b] = 1 /\ volumeRatio[b] # null

\* the rows and event counts bar j can have
RowsOn(j) == {NewRow(j, cl, off) : cl \in ClosesOn(j), off \in LowOffsets}

\* C5: the gate never forces an exit.  From a LONG state at the head of
\* bar i, a run with the gate on (any threshold, any volumeRatio[i-1]) and a
\* run with the gate off take the same transition and realize the same
\* state and return on bar i.
C5_GateNeverExits ==
  (pc = "transition" /\ pos = 1) =>
    LET off == [args EXCEPT !.volumeGateOn = FALSE]
        pcl == Row(i - 1).close
        sg == SignalRead(signal, i)
    IN  \A thr \in GateThrs :
          LET on == [args EXCEPT !.volumeGateOn = TRUE, !.volumeGateThr = thr]
          IN  \A a \in ATRs :
                LET sOff == TransitionStep(State, off, pcl, sg, null, a)
                IN  /\ \A vr \in VRs :
                         TransitionStep(State, on, pcl, sg, vr, a) = sOff
                    /\ \A today \in RowsOn(i), c \in EventCounts :
                         LET ecbd == WithEvent(eventCountByDate, i, c)
                         IN  RealizeStep(sOff, on, pcl, today, ecbd)
                               = RealizeStep(sOff, off, pcl, today, ecbd)

\* a LONG position at the head of a bar, gate on, signal still 1
C5_Witness ==
  /\ pc = "transition" /\ pos = 1 /\ args.volumeGateOn
  /\ SignalRead(signal, i) = 1 /\ trades >= 1

\* the count exposureForDay finds for date t
CountOn(ecbd, t) == IF t \in DOMAIN ecbd THEN ecbd[t] ELSE 0

\* C6: on a bar with a LONG position and an event count at or above the
\* threshold, scaling changes the return only: without a stop hit the
\* position, equity's cost factor and the trade, win and loss counts are
\* unchanged; a transaction on such a bar is one the unscaled run makes too;
\* and with scale 0.5 and no stop hit r is half of close[i]/close[i-1] - 1.
C6_ScalingOnlyScales ==
  [][(/\ pc = "realize" /\ pos = 1 /\ args.eventScaleOn
      /\ CountOn(eventCountByDate', i) >= args.eventCountThr)
     => LET today == rows'[i + 1]
            pcl == Row(i - 1).close
            un == RealizeStep(State, [args EXCEPT !.eventScaleOn = FALSE],
                              pcl, today, eventCountByDate')
            r == daily'[Len(daily')]
        IN  /\ ~StopHit(State, pcl, today) =>
                 /\ pos' = 1 /\ trades' = trades /\ wins' = wins
                 /\ losses' = losses /\ equity'.k = equity.k
                 /\ entryPrice' = entryPrice /\ stopLevel' = stopLevel
            /\ pos' # pos => un.s.pos # pos
            /\ trades' - trades <= un.s.trades - trades
            /\ equity'.k - equity.k <= un.s.equity.k - equity.k
            /\ wins' - wins <= un.s.wins - wins
            /\ losses' - losses <= un.s.losses - losses
            /\ (args.eventScale = <<1, 2>> /\ ~StopHit(State, pcl, today)) =>
                 r = RMul(<<1, 2>>, RSub(RDiv(today.close, pcl), One))]_vars

\* a bar realized LONG on an event day at half exposure with a non-zero
\* return and no transaction
C6_Witness ==
  /\ pc \in {"transition", "finalize"} /\ pos = 1
  /\ args.eventScaleOn /\ args.eventScale = <<1, 2>>
  /\ CountOn(eventCountByDate, i - 1) >= args.eventCountThr
  /\ daily[Len(daily)] # Zero
  /\ trades = atBarStart.trades

\* C7: wins + losses <= trades in every state; a step that books a win or a
\* loss closes a position, and a step that opens one books nothing.
C7_WinLossAccounting ==
  /\ [](wins + losses <= trades)
  /\ [][/\ (wins' + losses' # wins + losses) =>
             (pos = 1 /\ pos' = 0 /\ wins' + losses' = wins + losses + 1)
        /\ (pos = 0 /\ pos' = 1) => (wins' = wins /\ losses' = losses)]_vars

\* a finished run with an exit booked and a position opened again
C7_Witness ==
  /\ pc = "done" /\ wins + losses >= 1 /\ pos = 1 /\ trades = 3

\* C8: the run returns null exactly for a series of fewer than 2 bars, and
\* a result record for every longer series.
C8_NullIffTooShort ==
  pc = "done" =>
    /\ (result.status = "null" <=> n < 2)
    /\ (result.status = "ok" <=> n >= 2)
    /\ (n >= 2 => Len(result.curve) = n - 1)

\* a one-bar series answered with null
C8_Witness == pc = "done" /\ n = 1 /\ result.status = "null"

\* closes [100, 105, 110], signal [1, 1, 1], no cost, no gate, no scaling,
\* no ATR at the entry
ScenarioA ==
  /\ n = 3 /\ signal = <<1, 1, 1>>
  /\ args.feeBps = 0 /\ args.slipBps = 0
  /\ ~args.volumeGateOn /\ ~args.eventScaleOn
  /\ Len(rows) = 3
  /\ [b \in 1..3 |-> rows[b].close] = <<Num(100), Num(105), Num(110)>>
  /\ atr[1] = null

\* C9: scenario A enters at bar 0's close (entryPrice 100, one trade), has
\* the curve [1.05, 1.10] and totalReturn 0.10, and the position open at the
\* last bar is never closed: no win, no loss, no exit cost, no exit trade.
C9_ScenarioA ==
  (ScenarioA /\ pc = "done") =>
    /\ trades = 1 /\ wins = 0 /\ losses = 0
    /\ pos = 1 /\ entryPrice = Num(100) /\ stopLevel = NaN
    /\ equity.k = 1
    /\ [b \in 1..2 |-> EquityValue(curve[b].equity, args)]
         = <<<<21, 20>>, <<11, 10>>>>
    /\ [b \in 1..2 |-> curve[b].t] = <<1, 2>>
    /\ daily = <<<<1, 20>>, <<1, 21>>>>
    /\ totalReturn = <<1, 10>>
    /\ result.status = "ok"
    /\ result.trades = 1 /\ result.wins = 0 /\ result.losses = 0
    /\ result.curve = curve

C9_Witness == ScenarioA /\ pc = "done"

\* C10: a LONG position whose signal asks for the exit on bar i is closed
\* in the transition of bar i and not stop-checked on it: after the bar the
\* position is FLAT, one transaction and at most one win/loss were counted,
\* r is 0, and the realization changed nothing, also when low[i] is at or
\* below the stop the position had.  No bar has two exits.
C10_ExitOrder ==
  [][/\ (pc = "realize" /\ atBarStart.pos = 1
           /\ Desired(SignalRead(signal, i)) = 0)
        => /\ pos' = 0 /\ State' = State
           /\ trades' = atBarStart.trades + 1
           /\ equity'.k = atBarStart.equity.k + 1
           /\ wins' + losses' <= atBarStart.wins + atBarStart.losses + 1
           /\ daily'[Len(daily')] = Zero
     /\ pc = "realize"
        => wins' + losses' <= atBarStart.wins + atBarStart.losses + 1]_vars

\* a signal exit on a bar whose low is at or below the stop of the position
C10_Witness ==
  /\ pc \in {"transition", "finalize"}
  /\ atBarStart.pos = 1 /\ isFinite(atBarStart.stopLevel)
  /\ Desired(signal[i - 1]) = 0
  /\ RLe(Row(i - 1).low, atBarStart.stopLevel)
  /\ pos = 0

\* C18: an entry on bar i records entryPrice = close[i-1] and, when
\* atr[i-1] is defined and positive, stopLevel = entryPrice - K * atr[i-1];
\* otherwise the stop is undefined.  Entry price and stop are fixed while
\* the position is held, and a position with an undefined stop is never
\* closed by the realization of a bar, whatever the low.
C18_EntryStop ==
  [][/\ (pc = "transition" /\ pos = 0 /\ pos' = 1) =>
          LET a == atr'[i]
          IN  /\ entryPrice' = Row(i - 1).close
              /\ IF a # null /\ RGt(a, Zero)
                 THEN stopLevel' = RSub(entryPrice', RMul(args.atrStopK, a))
                 ELSE stopLevel' = NaN
     /\ (pos = 1 /\ pos' = 1) =>
          (entryPrice' = entryPrice /\ stopLevel' = stopLevel)
     /\ (pc = "realize" /\ pos = 1 /\ ~isFinite(stopLevel)) =>
          (pos' = 1 /\ trades' = trades /\ stopLevel' = NaN)]_vars

\* a position entered on an ATR of 0, its stop undefined, held over a bar
\* whose low was at or below the entry price
C18_Witness ==
  /\ pc \in {"transition", "finalize"}
  /\ pos = 1 /\ atBarStart.pos = 0 /\ trades = 1
  /\ atr[i - 1] = Zero /\ stopLevel = NaN
  /\ RLe(Row(i - 1).low, entryPrice)

C20_EveryExitBooked ==
  [][(pos = 1 /\ pos' = 0) => wins' + losses' = wins + losses + 1]_vars

\* every close of the rows read so far is positive
ClosesPositive == \A b \in 1..Len(rows) : RGt(rows[b].close, Zero)

\* C20: a signal exit with close[i-1] > 0 is a win iff
\* close[i-1]/entryPrice - 1 >= 0 and a loss otherwise; a stop exit with
\* entryPrice > 0 is a win iff stopLevel/entryPrice - 1 >= 0 and a loss
\* otherwise; a signal exit with close[i-1] <= 0 and a stop exit with
\* entryPrice <= 0 count as a trade and book neither.  So wins + losses is
\* at most the number of exits, and equals it while every close is positive.
C20_ExitClassification ==
  /\ [](/\ 2 * (wins + losses) <= trades - pos
        /\ ClosesPositive => 2 * (wins + losses) = trades - pos)
  /\ [][(pos = 1 /\ pos' = 0) =>
          LET pcl == Row(i - 1).close
              ref == IF pc = "transition" THEN pcl ELSE stopLevel
              booked == IF pc = "transition" THEN RGt(pcl, Zero)
                        ELSE RGt(entryPrice, Zero)
              win == RGe(RSub(RDiv(ref, entryPrice), One), Zero)
          IN  /\ trades' = trades + 1
              /\ wins' = wins + (IF booked /\ win THEN 1 ELSE 0)
              /\ losses' = losses + (IF booked /\ ~win THEN 1 ELSE 0)]_vars

\* a finished run whose one exit, a signal exit at a close of 0 or less,
\* was counted as a trade and booked nothing
C20_Witness ==
  /\ pc = "done" /\ n = 3 /\ trades = 2 /\ pos = 0
  /\ wins + losses = 0 /\ ~RGt(rows[2].close, Zero)

\* arithmetic mean of xs[a..b]
MeanOf(xs, a, b) == RDiv(SumSeq(SubSeq(xs, a, b)), Num(b - a + 1))

\* C14: for a window >= 1 the output of sma is as long as the input, is
\* null exactly at the indices below window - 1, and at every later index
\* is the arithmetic mean of the trailing `window` values, no more.
C14_SmaWindowMean ==
  ind.fn = "sma" =>
    LET values == Closes(rows)
    IN  /\ Len(ind.out) = Len(values)
        /\ \A j \in 1..Len(values) :
             IF j < ind.win THEN ind.out[j] = null
             ELSE /\ ind.out[j] # null
                  /\ ind.out[j] = MeanOf(values, j - ind.win + 1, j)

\* a window of 2 slid over 4 or more values that are not all equal
C14_Witness ==
  /\ ind.fn = "sma" /\ ind.win = 2 /\ n >= 4
  /\ rows[1].close # rows[3].close
  /\ ind.out[3] # ind.out[4]

\* no close of closes[0..j-1] is below its predecessor
NoDecline(closes, j) == \A k \in 2..j : RGe(closes[k], closes[k - 1])

\* C15: for a period >= 1 the output of rsi is null at every index below
\* period and a number in [0, 100] at every index from period on; it is
\* exactly 100 when the loss is zero (no decline so far; with period 1,
\* no decline on the last bar), flat prices included.
C15_RsiRange ==
  ind.fn = "rsi" =>
    LET closes == Closes(rows)
    IN  /\ Len(ind.out) = Len(closes)
        /\ \A j \in 1..Len(closes) :
             IF j - 1 < ind.period THEN ind.out[j] = null
             ELSE /\ ind.out[j] # null /\ isFinite(ind.out[j])
                  /\ RGe(ind.out[j], Zero) /\ RLe(ind.out[j], Num(100))
                  /\ NoDecline(closes, j) => ind.out[j] = Num(100)
                  /\ (ind.period = 1 /\ RGe(closes[j], closes[j - 1]))
                       => ind.out[j] = Num(100)

\* flat prices over the first period + 1 bars, then a decline
C15_Witness ==
  /\ ind.fn = "rsi" /\ ind.period = 2 /\ n >= 4
  /\ rows[1].close = rows[2].close /\ rows[2].close = rows[3].close
  /\ ind.out[3] = Num(100)
  /\ ind.out[4] # null /\ ind.out[4] # Num(100)

\* the rolling window of computeATRSeries at element j: the last `period`
\* elements of trs
AtrWindow(rs, period, j) == SubSeq(TrueRanges(rs), j - period + 1, j)

\* the finite elements of q, in order
FiniteOnly(q) == SelectSeq(q, LAMBDA x : isFinite(x))

\* C16 as stated: a value is emitted at index i only once `period` defined
\* true ranges have been seen, so never at an index below period, and is
\* the sum of the defined true ranges in the window over their count.
C16_FirstAtPeriod ==
  ind.fn = "atr" =>
    \A j \in 1..Len(ind.out) :
      ind.out[j] # null =>
        /\ j - 1 >= ind.period
        /\ FiniteCount(SubSeq(TrueRanges(rows), 1, j)) >= ind.period
        /\ ind.out[j] = RDiv(SumSeq(FiniteOnly(AtrWindow(rows, ind.period, j))),
                             Num(FiniteCount(AtrWindow(rows, ind.period, j))))

\* C16: bar 0 has no true range but takes a slot of the rolling window.  A
\* value is emitted at index i exactly when i >= period - 1 and the window
\* of the last `period` slots holds a defined true range, and it is the sum
\* of the defined true ranges in the window over their count: for
\* period >= 2 the first value is at index period - 1, over period - 1 or
\* fewer true ranges.
C16_AtrWindowMean ==
  ind.fn = "atr" =>
    /\ Len(ind.out) = Len(rows)
    /\ \A j \in 1..Len(rows) :
         IF j >= ind.period
            /\ FiniteCount(AtrWindow(rows, ind.period, j)) > 0
         THEN LET q == AtrWindow(rows, ind.period, j)
              IN  ind.out[j] = RDiv(SumSeq(FiniteOnly(q)), Num(FiniteCount(q)))
         ELSE ind.out[j] = null

\* period 3: a value at index 2, over the two true ranges seen, and one at
\* index 3
C16_Witness ==
  /\ ind.fn = "atr" /\ ind.period = 3 /\ n >= 4
  /\ ind.out[3] # null /\ ind.out[4] # null
  /\ FiniteCount(AtrWindow(rows, 3, 3)) = 2

\* C13: signal[i] of buildBacktestSignalTrend is 1 exactly when both
\* averages are defined at i, the mean of the last `fast` closes is above
\* the mean of the last `slow` closes and close[i] is above the latter, and
\* 0 otherwise; it is the signal the last max(fast, slow) rows alone would
\* give, whatever came before.
C13_TrendStateless ==
  ind.fn = "trend" =>
    LET closes == Closes(rows)
        sig == ind.out.signal
        w == IF ind.fast > ind.slow THEN ind.fast ELSE ind.slow
    IN  /\ Len(sig) = Len(rows)
        /\ \A j \in 1..Len(rows) :
             /\ sig[j] \in {0, 1}
             /\ sig[j] = 1 <=>
                  /\ j >= ind.fast /\ j >= ind.slow
                  /\ RGt(MeanOf(closes, j - ind.fast + 1, j),
                         MeanOf(closes, j - ind.slow + 1, j))
                  /\ RGt(closes[j], MeanOf(closes, j - ind.slow + 1, j))
             /\ j >= w =>
                  sig[j] = buildBacktestSignalTrend(
                             SubSeq(rows, j - w + 1, j),
                             ind.fast, ind.slow).signal[w]

\* fast 2, slow 3: a bar with signal 1 followed by a bar whose fast average
\* is above the slow one while its close is not
C13_Witness ==
  /\ ind.fn = "trend" /\ ind.fast = 2 /\ ind.slow = 3
  /\ \E j \in 4..n :
       /\ ind.out.signal[j - 1] = 1 /\ ind.out.signal[j] = 0
       /\ RGt(ind.out.smaFast[j], ind.out.smaSlow[j])

\* C12: signal[i] of buildBacktestSignalMeanRev is the state of a machine
\* over {0 (FLAT), 1 (LONG)} started FLAT: it holds its state on a bar
\* whose RSI is undefined, goes FLAT -> LONG exactly on RSI < entry and
\* LONG -> FLAT exactly on RSI > exit, and makes one move per bar at most:
\* a bar that enters stays LONG also when RSI is above exit.
C12_MeanRevMachine ==
  ind.fn = "meanrev" =>
    LET r == rsi(Closes(rows), ind.period)
        sig == ind.out.signal
        prev(j) == IF j = 1 THEN 0 ELSE sig[j - 1]
    IN  /\ Len(sig) = Len(rows)
        /\ ind.out.rsiSeries = r
        /\ \A j \in 1..Len(rows) :
             /\ sig[j] \in {0, 1}
             /\ r[j] = null => sig[j] = prev(j)
             /\ (prev(j) = 0 /\ r[j] # null) =>
                  (sig[j] = 1 <=> RLt(r[j], ind.entry))
             /\ (prev(j) = 1 /\ r[j] # null) =>
                  (sig[j] = 0 <=> RGt(r[j], ind.exit))

\* entry 70 above exit 30: a bar that enters on an RSI between the two, and
\* the next bar that exits
C12_Witness ==
  /\ ind.fn = "meanrev" /\ ind.entry = Num(70) /\ ind.exit = Num(30)
  /\ \E j \in 2..(n - 1) :
       /\ ind.out.signal[j - 1] = 0 /\ ind.out.signal[j] = 1
       /\ RGt(ind.out.rsiSeries[j], ind.exit)
       /\ ind.out.signal[j + 1] = 0

\* C11: a second call with the same rows, signal, atr, volumeRatio,
\* eventCountByDate and configuration starts its loop from the initial
\* trade state and an empty curve, whatever the first call left, and
\* returns the same curve, daily returns, trades, wins and losses, with the
\* same final equity.
C11_RunsIsolated ==
  alt # NoAlt =>
    /\ (pc \in {"transition", "finalize"} /\ i = 1) =>
         (State = InitialState /\ curve = <<>> /\ daily = <<>>)
    /\ pc = "done" => (result = alt.result /\ State = alt.s)

\* a second call finished after a first call that ended LONG with trades
C11_Witness ==
  /\ alt # NoAlt /\ pc = "done" /\ n >= 3
  /\ alt.s.pos = 1 /\ alt.s.trades >= 1 /\ alt.result.status = "ok"
  /\ result.status = "ok"

\* the curve never falls from one point to the next, nor below the initial 1
CurveNeverFalls ==
  \A b \in 1..Len(curve) :
    RGe(EquityValue(curve[b].equity, args),
        IF b = 1 THEN One ELSE EquityValue(curve[b - 1].equity, args))

\* C17: on rows with strictly increasing closes, no fee or slippage and
\* the signal of buildBacktestSignalTrend, a series of 2 or more bars gets
\* a result; the signal never closes a position, so every exit is a stop
\* exit; and while no stop was hit the curve never falls, so at the end
\* totalReturn >= 0 > -0.5 and maxDrawdown = 0.
C17_SelfTest ==
  /\ [](/\ (pc = "done" /\ n >= 2) => result.status = "ok"
        /\ trades = pos =>
             /\ CurveNeverFalls
             /\ pc \in {"finalize", "done"} =>
                  /\ RGe(totalReturn, Zero)
                  /\ RGt(totalReturn, <<-1, 2>>)
                  /\ maxDrawdown = Zero)
  /\ [][(pos = 1 /\ pos' = 0) => pc = "realize"]_vars

\* a finished run that entered on the trend signal with a stop set, was
\* never stopped out and gained
C17_Witness ==
  /\ pc = "done" /\ result.status = "ok"
  /\ trades = 1 /\ pos = 1 /\ isFinite(stopLevel)
  /\ Len(curve) >= 4 /\ RGt(totalReturn, Zero)

\* scale factors a caller can pass, in and out of [0, 1]
WideScales == EventScales \cup {<<-1, 2>>, One, Num(7)}

\* C21: the exposure of bar i is 0 when FLAT after the transition; when
\* LONG it is 1 unless event scaling is on and the count of date(i), 0 when
\* absent, is >= eventCountThr, where it is clamp(eventScale, 0, 1).  It is
\* within [0, 1] for every scale factor, and the return realized on the bar
\* is this exposure times the price (or stop) return.
C21_Exposure ==
  [][pc = "realize" =>
       LET today == rows'[i + 1]
           pcl == Row(i - 1).close
           scaled == args.eventScaleOn
                       /\ CountOn(eventCountByDate', i) >= args.eventCountThr
           expo == IF pos = 0 THEN Zero
                   ELSE IF scaled THEN clamp(args.eventScale, Zero, One)
                   ELSE One
           move == IF StopHit(State, pcl, today)
                   THEN RSub(RDiv(stopLevel, pcl), One)
                   ELSE RSub(RDiv(today.close, pcl), One)
       IN  /\ today.t = i
           /\ RGe(expo, Zero) /\ RLe(expo, One)
           /\ expo = (IF pos = 1
                      THEN exposureForDay(args, eventCountByDate', today.t)
                      ELSE Zero)
           /\ daily'[Len(daily')] = RMul(expo, move)
           /\ (pos = 1 /\ scaled) =>
                \A sc \in WideScales :
                  LET e == exposureForDay([args EXCEPT !.eventScale = sc],
                                          eventCountByDate', today.t)
                  IN  RGe(e, Zero) /\ RLe(e, One)]_vars

\* a bar realized LONG at half exposure on an event day that follows a
\* bar without events, with a non-zero return
C21_Witness ==
  /\ pc \in {"transition", "finalize"} /\ i >= 3
  /\ atBarStart.pos = 1 /\ pos = 1
  /\ args.eventScaleOn /\ args.eventScale = <<1, 2>>
  /\ CountOn(eventCountByDate, i - 1) >= args.eventCountThr
  /\ CountOn(eventCountByDate, i - 2) < args.eventCountThr
  /\ daily[Len(daily)] # Zero

\* the equity before curve point b: the starting equity or the point before
EquityBefore(b) == IF b = 1 THEN InitialState.equity ELSE curve[b - 1].equity

\* the newest curve point is the point before it times (1 + r) times the
\* costs of the bar; C22_Step keeps the older points as they are
C22_State ==
  /\ Len(curve) = Len(daily)
  /\ pc \in {"transition", "realize"} => Len(curve) = i - 1
  /\ (pc \in {"finalize", "done"} /\ n >= 2) => Len(curve) = n - 1
  /\ \A b \in 1..Len(curve) : curve[b].t = rows[b + 1].t /\ curve[b].t = b
  /\ \A b \in {Len(curve)} \ {0} :
       LET e == curve[b].equity
           e0 == EquityBefore(b)
       IN  /\ e.m = RMul(e0.m, RAdd(One, daily[b]))
           /\ e.k - e0.k \in 0..2
           /\ e.k <= 2 =>
                EquityValue(e, args)
                  = RMul(RMul(EquityValue(e0, args), RAdd(One, daily[b])),
                         RPow(RSub(One, cost(args)), e.k - e0.k))
  /\ (pc \in {"transition", "finalize"} /\ Len(curve) >= 1) =>
       /\ curve[Len(curve)].equity = equity
       /\ equity.k - EquityBefore(Len(curve)).k = trades - atBarStart.trades

C22_Step ==
  pc = "realize" =>
    /\ i' = i + 1 /\ rows'[i + 1].t = i
    /\ Len(curve') = Len(curve) + 1 /\ Len(daily') = Len(daily) + 1
    /\ SubSeq(curve', 1, Len(curve)) = curve
    /\ SubSeq(daily', 1, Len(daily)) = daily
    /\ pos = 0 =>
         /\ daily'[Len(daily')] = Zero /\ equity' = equity
         /\ equity.m = atBarStart.equity.m
         /\ equity.k - atBarStart.equity.k
              = (IF atBarStart.pos = 1 THEN 1 ELSE 0)

\* C22: the loop visits bars 1..n-1 in ascending order once each and
\* appends one curve point and one return per bar: curve and daily have
\* length n - 1, curve[k].t is the date of bar k + 1, and each point is the
\* point before times (1 + r) times (1 - cost) per transaction of the bar.
\* A bar that is FLAT after the transition has r = 0 and changes equity by
\* the cost of a signal exit only.
C22_OutputShape == []C22_State /\ [][C22_Step]_vars

\* a finished run of 3 bars: a bar with a return, then a bar closed by a
\* signal exit and FLAT
C22_Witness ==
  /\ pc = "done" /\ n = 3 /\ Len(curve) = 2
  /\ daily[1] # Zero /\ daily[2] = Zero
  /\ atBarStart.pos = 1 /\ pos = 0 /\ trades = 2

\* the equity values of the curve the drawdown was computed over
CurveEquities == [j \in 1..Len(ind.curve) |-> ind.curve[j].equity.m]

\* the maximum of the first j values of es
RunningPeak(es, j) ==
  CHOOSE p \in {es[a] : a \in 1..j} : \A a \in 1..j : RLe(es[a], p)

\* (equity - runningPeak) / runningPeak at point j, 0 with a peak <= 0
RelativeToPeak(es, j) ==
  LET p == RunningPeak(es, j)
  IN  IF RGt(p, Zero) THEN RDiv(RSub(es[j], p), p) ELSE Zero

\* C23: computeMaxDrawdownFromCurve is the most negative value of
\* (equity - runningPeak) / runningPeak over the points of the curve, the
\* running peak being the maximum equity up to and including the point; it
\* is 0 when the curve never falls below its peak or the peak is <= 0, and
\* never positive. The starting equity 1 is not a point of the curve: a
\* curve that starts below 1 and never falls has drawdown 0.
C23_MaxDrawdown ==
  ind.fn = "maxDrawdown" =>
    LET es == CurveEquities
        dds == {Zero} \cup {RelativeToPeak(es, j) : j \in 1..Len(es)}
    IN  /\ ind.out \in dds
        /\ \A d \in dds : RLe(ind.out, d)
        /\ RLe(ind.out, Zero)
        /\ (\A j \in 1..Len(es) : es[j] = RunningPeak(es, j)) => ind.out = Zero
        /\ (\A j \in 1..Len(es) : RLe(es[j], Zero)) => ind.out = Zero
        /\ (\E j \in 1..Len(es) :
              /\ RGt(RunningPeak(es, j), Zero)
              /\ RLt(es[j], RunningPeak(es, j))) => RLt(ind.out, Zero)

\* a curve that starts below 1, rises to a peak and falls to 97/104 of it
C23_Witness ==
  /\ ind.fn = "maxDrawdown"
  /\ Len(ind.curve) = 3
  /\ CurveEquities = <<<<97, 100>>, <<26, 25>>, <<97, 100>>>>
  /\ ind.out = <<-7, 104>>

C24_State ==
  /\ pos \in {0, 1}
  /\ pos = 0 => entryPrice = NaN /\ stopLevel = NaN
  /\ pos = 1 =>
       \E j \in 1..Len(atr) :
         /\ j <= i
         /\ entryPrice = Row(j - 1).close
         /\ stopLevel = EntryStop(args, Row(j - 1).close, atr[j])
         /\ stopLevel = NaN \/ isFinite(stopLevel)

C24_Step ==
  /\ pos' = pos => entryPrice' = entryPrice /\ stopLevel' = stopLevel
  /\ (pos = 0 /\ pos' = 1) =>
       /\ pc = "transition"
       /\ entryPrice' = Row(i - 1).close
       /\ stopLevel' = EntryStop(args, Row(i - 1).close, atr'[i])
  /\ (pos = 1 /\ pos' = 0) => pc \in {"transition", "realize"}

\* C24: the position is FLAT or LONG; when FLAT, entryPrice and stopLevel
\* are both NaN; when LONG, entryPrice is the close of the bar the position
\* was filled at and stopLevel is NaN or the level computed at that entry.
\* A step that leaves the position as it is leaves entryPrice and stopLevel
\* as they are: the stop never trails.
C24_TradeState == []C24_State /\ [][C24_Step]_vars

\* a position entered at the first bar and held over two bars with a stop,
\* while the close moved away from the entry price
C24_Witness ==
  /\ pc = "finalize" /\ i = 3
  /\ pos = 1 /\ atBarStart.pos = 1 /\ trades = 1
  /\ entryPrice = Row(0).close /\ isFinite(stopLevel)
  /\ Row(2).close # Row(0).close

\* the ratio vr passes the gate
PassesGate(vr) == vr # null /\ RGe(vr, args.volumeGateThr)

\* the transition of iteration i wants an entry from FLAT with the gate on
GatedEntryWanted ==
  /\ pc = "transition" /\ pos = 0 /\ args.volumeGateOn
  /\ Desired(SignalRead(signal, i)) = 1

C25_Step ==
  /\ (GatedEntryWanted /\ ~PassesGate(volumeRatio'[i])) =>
       /\ State' = State
       /\ pc' = "realize"
  /\ (pc = "realize" /\ pos = 0) =>
       /\ State' = State
       /\ daily'[Len(daily')] = Zero
  /\ (GatedEntryWanted /\ PassesGate(volumeRatio'[i])) =>
       /\ pos' = 1
       /\ entryPrice' = Row(i - 1).close
       /\ trades' = trades + 1
       /\ equity' = ChargeCost(equity)

\* the bar just finished began FLAT, wanted an entry and made no transaction
C25_State ==
  (/\ pc \in {"transition", "finalize"} /\ i >= 2
   /\ atBarStart.pos = 0 /\ Desired(signal[i - 1]) = 1
   /\ State = atBarStart)
    => /\ args.volumeGateOn
       /\ ~PassesGate(volumeRatio[i - 1])
       /\ daily[Len(daily)] = Zero

\* C25: an entry blocked by the volume gate charges no cost, counts no
\* trade and leaves the position FLAT with r = 0 on that bar; the block is
\* not remembered: whatever came before, a wanted entry whose ratio is
\* defined and >= volumeGateThr is taken at the previous close, so with the
\* signal staying 1 the entry happens at the first bar whose ratio passes.
C25_BlockedForThatStepOnly == []C25_State /\ [][C25_Step]_vars

\* an entry blocked at the first bar and taken at the second, at the close
\* of the first
C25_Witness ==
  /\ pc = "realize" /\ i = 2
  /\ args.volumeGateOn
  /\ signal[1] = 1 /\ signal[2] = 1
  /\ ~PassesGate(volumeRatio[1]) /\ PassesGate(volumeRatio[2])
  /\ atBarStart = InitialState
  /\ pos = 1 /\ trades = 1 /\ entryPrice = Row(1).close
  /\ daily = <<Zero>>

C26_State ==
  /\ trades % 2 = pos
  /\ 2 * (wins + losses) <= trades - pos
  /\ pc \in {"transition", "finalize", "done"} =>
       /\ trades - atBarStart.trades \in 0..2
       /\ trades - atBarStart.trades = 2 =>
            atBarStart.pos = 0 /\ pos = 0
  /\ pc = "realize" => trades - atBarStart.trades \in 0..1

\* an entry or an exit is one trade, and nothing else is
C26_Step ==
  /\ (pos = 0 /\ pos' = 1) => trades' = trades + 1
  /\ (pos = 1 /\ pos' = 0) => trades' = trades + 1
  /\ pos' = pos => trades' = trades
  /\ wins' + losses' - (wins + losses) \in 0..1
  /\ wins' + losses' # wins + losses => (pos = 1 /\ pos' = 0)

\* C26: every entry and every exit counts one trade and nothing else does,
\* so trades = 2 * exits + pos: trades is odd exactly when LONG, at most 2
\* transactions fall on one bar (an entry followed by a stop exit), and
\* wins + losses <= (trades - pos) / 2.
C26_TradeCount == []C26_State /\ [][C26_Step]_vars

\* two round trips, the second one an entry stopped out on the same bar
C26_Witness ==
  /\ pc = "finalize" /\ n = 3
  /\ trades = 4 /\ pos = 0
  /\ atBarStart.trades = 2 /\ atBarStart.pos = 0
  /\ wins + losses = 2

\* C27: with event scaling enabled and clamp(eventScale, 0, 1) > 0, the run
\* and the run with scaling disabled on the same inputs have, in every
\* state, the same position, entryPrice, stopLevel, trades, wins, losses
\* and number of costs charged; only r and equity's value may differ.
C27_SameTradePath ==
  (args.eventScaleOn /\ RGt(clamp(args.eventScale, Zero, One), Zero)) =>
    /\ pos = alt.s.pos
    /\ entryPrice = alt.s.entryPrice
    /\ stopLevel = alt.s.stopLevel
    /\ trades = alt.s.trades
    /\ wins = alt.s.wins
    /\ losses = alt.s.losses
    /\ equity.k = alt.s.equity.k
    /\ Len(curve) = Len(alt.curve)
    /\ (result.status = "ok" =>
          /\ alt.result.status = "ok"
          /\ result.trades = alt.result.trades
          /\ result.wins = alt.result.wins
          /\ result.losses = alt.result.losses)

\* two finished runs, the scaled one at half exposure on an event day: a
\* stop exit in both, and different returns
C27_Witness ==
  /\ pc = "done" /\ n = 3
  /\ args.eventScaleOn /\ args.eventScale = <<1, 2>>
  /\ trades = 2 /\ pos = 0 /\ losses = 1
  /\ alt.s.trades = 2
  /\ daily # alt.daily
  /\ equity.m # alt.s.equity.m

\* the bar before iteration i had signal 1 and ended FLAT after a
\* transaction: its position was stopped out
StoppedLastBar ==
  /\ i >= 2 /\ pos = 0
  /\ Desired(signal[i - 1]) = 1
  /\ trades > atBarStart.trades

\* C28: a stop overrides the signal for the bar of the stop only. After a
\* stop exit, if the signal read at the next bar is 1 and the volume gate
\* permits, the run enters again at the previous close, charges one cost,
\* counts one trade and computes a new stop level from the ATR read at
\* that bar.
C28_NoCoolDown ==
  [][(/\ pc = "transition" /\ StoppedLastBar
      /\ Desired(SignalRead(signal, i)) = 1
      /\ (args.volumeGateOn => PassesGate(volumeRatio'[i])))
     => /\ pos' = 1
        /\ entryPrice' = Row(i - 1).close
        /\ equity' = ChargeCost(equity)
        /\ trades' = trades + 1
        /\ stopLevel' = EntryStop(args, Row(i - 1).close, atr'[i])]_vars

\* stopped out on the first bar and LONG again on the second, with a stop
\* level under the new entry price
C28_Witness ==
  /\ pc = "realize" /\ i = 2
  /\ signal[1] = 1 /\ signal[2] = 1
  /\ atBarStart.pos = 0 /\ atBarStart.trades = 2 /\ atBarStart.losses = 1
  /\ pos = 1 /\ trades = 3
  /\ entryPrice = Row(1).close
  /\ isFinite(stopLevel) /\ RLt(stopLevel, entryPrice)

\* the page state loadPrice writes
PageFields(L) == <<L.rowsAll, L.lastSource, L.lastError, L.status>>

\* invocation p of the page L is awaiting and a later invocation took a
\* different request id
Superseded(L, p) ==
  \E q \in (p + 1)..Len(L.calls) :
    L.calls[q].reqId \notin {NoReq, L.calls[p].reqId}

\* C29: an invocation of loadPrice whose fetch settles, by resolving or by
\* rejecting, after a later invocation took a different request id writes
\* none of rowsAll, lastSource, lastError and status; an invocation that
\* writes them on settling holds the request id in loadingRef.
C29_LatestWins ==
  [][load.on =>
       \A p \in 1..Len(load.calls) :
         (load.calls[p].pc = "await" /\ load'.calls[p].pc = "done") =>
           /\ Superseded(load, p) => PageFields(load') = PageFields(load)
           /\ PageFields(load') # PageFields(load) =>
                /\ load.calls[p].reqId = load.loadingRef
                /\ ~Superseded(load, p)]_vars

\* two invocations with two request ids: the first resolved with rows
\* while the second awaits, and the page still shows what the second wrote
\* before its await
C29_Witness ==
  /\ load.on /\ Len(load.calls) = 2
  /\ load.calls[1].pc = "done" /\ load.calls[1].fetched = 2
  /\ load.calls[1].reqId = 1 /\ load.calls[1].usedProvider = "stooq"
  /\ load.calls[2].pc = "await" /\ load.calls[2].reqId = 2
  /\ load.calls[2].usedProvider = "twse"
  /\ load.loadingRef = 2
  /\ load.rowsAll.by = 0 /\ load.lastError = ""
  /\ load.status.tone = "warn"

\* every close and every low read so far is > 0
PricesPositive ==
  \A b \in 1..Len(rows) : RGt(rows[b].close, Zero) /\ RGt(rows[b].low, Zero)

\* C30: when every close and every low is > 0, equity is > 0 in every
\* state of the run and on every curve point, for every configuration: the
\* cost factor 1 - cost is at least 0.9 and every return factor 1 + r is
\* > 0. Hence totalReturn > -1.
C30_EquityPositive ==
  PricesPositive =>
    /\ RGe(RSub(One, cost(args)), <<9, 10>>)
    /\ RGt(equity.m, Zero)
    /\ \A b \in 1..Len(curve) : RGt(curve[b].equity.m, Zero)
    /\ \A b \in 1..Len(daily) : RGt(RAdd(One, daily[b]), Zero)
    /\ equity.k <= 2 =>
         /\ RGt(EquityValue(equity, args), Zero)
         /\ RGt(totalReturn, Num(-1))

\* a finished run at the cost cap that lost on a stop and paid two costs
C30_Witness ==
  /\ pc = "done" /\ n = 3 /\ PricesPositive
  /\ cost(args) = <<1, 10>>
  /\ equity.k = 2 /\ losses = 1
  /\ RLt(equity.m, One)
  /\ RLt(totalReturn, Zero)

====
